---- MODULE Spec2Model ----
(***************************************************************************)
(* linear-cli: the TTL cache store (src/src/cache.rs) and the workspace    *)
(* registry with credential resolution (src/src/config.rs).                *)
(*                                                                         *)
(* Every API call is one action.  The file system is the shared state:     *)
(* one cache file per CacheType and one registry file.  u64 arithmetic is  *)
(* kept at a reduced width (U64_BITS) so that timestamp + ttl_seconds can  *)
(* overflow inside the model exactly as it can in the program.             *)
(***************************************************************************)
EXTENDS Integers, Sequences, FiniteSets, TLC

(***************************************************************************)
(* Bounds of the model                                                     *)
(***************************************************************************)
\* width of the unsigned integer standing for u64 (timestamps, TTLs, clock)
U64_BITS == 12
\* the clock runs over 0..MaxNow
MaxNow == 3
\* number of cache API calls in one behaviour
MaxOps == 2

U64_MAX == 2^U64_BITS - 1
\* longest list of local folders, and of Linear projects, that are compared
MaxProjects == 2

(***************************************************************************)
(* Values                                                                  *)
(***************************************************************************)
\* Option<T>
None == [tag |-> "none"]
Some(x) == [tag |-> "some", v |-> x]
\* a panic of the calling thread (the call does not return)
Panic == [tag |-> "panic"]
\* Result<(), anyhow::Error>
Ok == [tag |-> "ok"]
Err(msg) == [tag |-> "err", v |-> msg]
\* Result<T, anyhow::Error>: Ok(x)
OkWith(x) == [tag |-> "ok", v |-> x]

\* serde_json::Value, as far as the cache inspects it: strings, arrays and maps
JString(s) == [s |-> s, kind |-> "string"]
JArray(items) == [kind |-> "array", items |-> items]
JObject(m) == [kind |-> "object", m |-> m]
\* the values the calls are given: a scalar, a list, a keyed map and a GraphQL
\* connection {"nodes": [...]}
Values ==
  { JString("a"),
    JArray(<<JString("a"), JString("b")>>),
    JObject([k \in {"k1"} |-> JString("a")]),
    JObject([k \in {"nodes"} |-> JArray(<<JString("a")>>)]) }

VARIABLES
  cfg,              \* the registry file config.toml
  wres,             \* the last registry call: what it was given, found and returned
  now,              \* SystemTime::now() in seconds since the epoch
  overflow_checks,  \* build profile: TRUE = overflow panics, FALSE = it wraps
  ttl_seconds,      \* Cache.ttl_seconds of the store in use
  files,            \* cache directory: CacheType -> file content
  cres,             \* the last cache call: what it was given, found and returned
  ops,              \* number of cache calls made so far
  sync,             \* the last project comparison: its inputs and its result
  procs             \* the processes running at once: each one's call and position

cacheVars == <<now, overflow_checks, ttl_seconds, files, cres, ops>>
cfgVars == <<cfg, wres>>
runVars == <<sync, procs>>
vars == <<cfg, wres, now, overflow_checks, ttl_seconds, files, cres, ops, sync, procs>>

\* the processes that may run at the same time
Procs == {1, 2}
\* no comparison made, no process started
NoSync == [op |-> "none"]
\* a process: its call (op, key, arg), when it began (at) and the file it began
\* with (pre), its position in it (pc), what its get
\* returned to set_keyed (base), the text it is about to write (content), whether
\* the file it holds open was unlinked (orphan), what its remove_file found (rm),
\* the registry it loaded (snap), whether its write was the last one (last), and
\* what the call returned (ret)
IdleProc ==
  [op |-> "none", pc |-> "idle", key |-> None, arg |-> None, base |-> None,
   content |-> None, orphan |-> FALSE, rm |-> None, snap |-> None, last |-> FALSE,
   ret |-> None, at |-> 0, pre |-> None]
NoProcs == [p \in Procs |-> IdleProc]
Sequential == sync = NoSync /\ procs = NoProcs

(***************************************************************************)
(* cache.rs                                                                *)
(***************************************************************************)
DEFAULT_TTL_SECONDS == 3600

\* CacheType::all()
CacheTypes == {"Teams", "Users", "Statuses", "Labels"}

\* TTLs a store is constructed with: Cache::new() or Cache::with_ttl(t), t: u64
TTLs == {0, 1, 2, DEFAULT_TTL_SECONDS, U64_MAX}

\* content of a cache file
NoFile == [kind |-> "absent"]
Garbage == [kind |-> "garbage"]
\* a file just created or truncated: File::create, before anything is written
EmptyFile == [kind |-> "empty"]
\* a file that holds one text written over the beginning of a longer one
Torn(len) == [kind |-> "torn", len |-> len]

\* struct CacheEntry
CacheEntry(ts, ttl, data) == [ttl_seconds |-> ttl, data |-> data, timestamp |-> ts]

\* serde_json::to_string_pretty(&entry): the text of an entry
to_string_pretty(e) ==
  [kind |-> "json", ttl_seconds |-> e.ttl_seconds, data |-> e.data,
   timestamp |-> e.timestamp]

\* serde_json::from_str::<CacheEntry>(&content).ok()
from_str(content) ==
  IF content.kind = "json"
    THEN Some(CacheEntry(content.timestamp, content.ttl_seconds, content.data))
    ELSE None

\* u64 `+`: whether the sum leaves the type
AddOverflows(a, b) == a + b > U64_MAX

\* u64 `+` as a build without overflow checks computes it
WrappingAdd(a, b) == (a + b) % (U64_MAX + 1)

\* CacheEntry::is_valid panics: the sum overflows in a build that checks it
IsValidPanics(e) == overflow_checks /\ AddOverflows(e.timestamp, e.ttl_seconds)

\* CacheEntry::is_valid, when it returns: now < self.timestamp + self.ttl_seconds
EntryIsValid(e, t) == t < WrappingAdd(e.timestamp, e.ttl_seconds)

\* u64::saturating_sub
SaturatingSub(a, b) == IF a >= b THEN a - b ELSE 0

\* CacheEntry::age_seconds
age_seconds(e, t) == SaturatingSub(t, e.timestamp)

\* path.exists()
Exists(fs, ct) == fs[ct].kind # "absent"

\* fs::remove_file(path)
RemoveFile(fs, ct) == [fs EXCEPT ![ct] = NoFile]

\* fs::write(path, content)
WriteFile(fs, ct, content) == [fs EXCEPT ![ct] = content]

\* the record kept of a cache call
Call(op, ct, arg, ret) ==
  [op |-> op, type |-> ct, arg |-> arg, ret |-> ret, pre |-> files,
   at |-> now, ttl |-> ttl_seconds]

\* no cache call made yet
NoCall == [op |-> "none", type |-> "Teams", arg |-> None, ret |-> None,
           pre |-> [ct \in CacheTypes |-> NoFile], at |-> 0, ttl |-> 0]

\* Cache::get as a function of the directory: what it returns and what it leaves
GetRet(fs, ct) ==
  LET parsed == from_str(fs[ct]) IN
  IF ~Exists(fs, ct) THEN [ret |-> None, fs |-> fs]
  ELSE IF parsed = None THEN [ret |-> None, fs |-> fs]
  ELSE IF IsValidPanics(parsed.v) THEN [ret |-> Panic, fs |-> fs]
  ELSE IF EntryIsValid(parsed.v, now) THEN [ret |-> Some(parsed.v.data), fs |-> fs]
  ELSE [ret |-> None, fs |-> RemoveFile(fs, ct)]

\* Cache::get_entry
get_entry(fs, ct) ==
  IF ~Exists(fs, ct) THEN None ELSE from_str(fs[ct])

\* Value::as_array().map(|a| a.len())
ArrayLen(v) == IF v.kind = "array" THEN Some(Len(v.items)) ELSE None

\* Value::get("nodes"): the member of a map, nothing for any other value
GetMember(v, key) ==
  IF v.kind = "object" /\ key \in DOMAIN v.m THEN Some(v.m[key]) ELSE None

\* the item count of Cache::status: the length of the array, or of the array
\* under "nodes", or 1
ItemCount(data) ==
  IF ArrayLen(data) # None THEN ArrayLen(data).v
  ELSE IF GetMember(data, "nodes") # None
          /\ ArrayLen(GetMember(data, "nodes").v) # None
    THEN ArrayLen(GetMember(data, "nodes").v).v
  ELSE 1

\* the length of a value's text, one unit per scalar and per bracket pair
TextLen(v) ==
  IF v.kind = "array" THEN 1 + Len(v.items)
  ELSE IF v.kind = "object" THEN 1 + Cardinality(DOMAIN v.m)
  ELSE 1

\* fs::metadata(&path).map(|m| m.len()).unwrap_or(0), in the same units
FileLen(content) ==
  IF content.kind = "json" THEN 3 + TextLen(content.data)
  ELSE IF content.kind = "garbage" THEN 1
  ELSE IF content.kind = "torn" THEN content.len
  ELSE 0

\* struct CacheStatus without the cache_type
CacheStatus(valid, age, size, count) ==
  [valid |-> valid, age_seconds |-> age, size_bytes |-> size, item_count |-> count]

\* Cache::status, the element for one cache type
status(fs, ct) ==
  LET entry == get_entry(fs, ct) IN
  IF ~Exists(fs, ct) THEN CacheStatus(FALSE, None, None, None)
  ELSE IF entry = None THEN CacheStatus(FALSE, None, None, None)
  ELSE IF IsValidPanics(entry.v) THEN Panic
  ELSE CacheStatus(EntryIsValid(entry.v, now), Some(age_seconds(entry.v, now)),
                   Some(FileLen(fs[ct])), Some(ItemCount(entry.v.data)))

\* Cache::set as a function of the directory
SetRet(fs, ct, data) ==
  WriteFile(fs, ct, to_string_pretty(CacheEntry(now, ttl_seconds, data)))

\* json!({}): the empty map
EmptyObject == JObject(<<>>)

\* serde_json::Map::insert on a map; as_object_mut() is None for any other
\* value, which is left as it is
InsertMember(v, key, value) ==
  IF v.kind = "object"
    THEN JObject([k \in DOMAIN v.m \cup {key} |->
                    IF k = key THEN value ELSE v.m[k]])
    ELSE v

\* Cache::get_keyed that reads the entry without the expiry check of Cache::get
get_keyed_unexpiring(fs, ct, key) ==
  LET e == get_entry(fs, ct) IN
  IF e = None THEN [ret |-> None, fs |-> fs]
  ELSE [ret |-> GetMember(e.v.data, key), fs |-> fs]

\* Cache::get_keyed as a function of the directory: what it returns and what it
\* leaves
get_keyed(fs, ct, key) ==
  LET g == GetRet(fs, ct) IN
  IF g.ret = Panic THEN [ret |-> Panic, fs |-> g.fs]
  ELSE IF g.ret = None THEN [ret |-> None, fs |-> g.fs]
  ELSE [ret |-> GetMember(g.ret.v, key), fs |-> g.fs]

\* Cache::set_keyed that always starts from the empty map
set_keyed_fresh(fs, ct, key, value) ==
  LET g == GetRet(fs, ct) IN
  IF g.ret = Panic THEN [ret |-> Panic, fs |-> g.fs]
  ELSE [ret |-> Ok,
        fs |-> SetRet(g.fs, ct, InsertMember(EmptyObject, key, value))]

\* Cache::set_keyed as a function of the directory
set_keyed(fs, ct, key, value) ==
  LET g == GetRet(fs, ct)
      data == IF g.ret = None THEN EmptyObject ELSE g.ret.v
  IN
  IF g.ret = Panic THEN [ret |-> Panic, fs |-> g.fs]
  ELSE [ret |-> Ok, fs |-> SetRet(g.fs, ct, InsertMember(data, key, value))]

\* a bool returned by a call
Bool(b) == [tag |-> "bool", v |-> b]

\* Cache::is_valid(cache_type): self.get(cache_type).is_some()
is_valid(fs, ct) ==
  LET g == GetRet(fs, ct) IN
  IF g.ret = Panic THEN [ret |-> Panic, fs |-> g.fs]
  ELSE [ret |-> Bool(g.ret # None), fs |-> g.fs]

\* Cache::status: the Vec<CacheStatus>, one element per cache type
status_all(fs) ==
  IF \E ct \in CacheTypes : status(fs, ct) = Panic THEN Panic
  ELSE [tag |-> "vec", v |-> [ct \in CacheTypes |-> status(fs, ct)]]

\* Cache::clear_type that fails on a type with no file
clear_type_strict(fs, ct) ==
  IF Exists(fs, ct) THEN [ret |-> Ok, fs |-> RemoveFile(fs, ct)]
  ELSE [ret |-> Err("not found"), fs |-> fs]

\* Cache::clear_type as a function of the directory
clear_type(fs, ct) ==
  IF Exists(fs, ct) THEN [ret |-> Ok, fs |-> RemoveFile(fs, ct)]
  ELSE [ret |-> Ok, fs |-> fs]

\* CacheType::all(), in its order
AllTypes == <<"Teams", "Users", "Statuses", "Labels">>

\* the loop of Cache::clear_all from the i-th type on
RECURSIVE ClearFrom(_, _)
ClearFrom(fs, i) ==
  IF i > Len(AllTypes) THEN [ret |-> Ok, fs |-> fs]
  ELSE LET r == clear_type(fs, AllTypes[i]) IN
       IF r.ret # Ok THEN r ELSE ClearFrom(r.fs, i + 1)

\* Cache::clear_all that skips the first cache type
clear_all_short(fs) == ClearFrom(fs, 2)

\* Cache::clear_all as a function of the directory
clear_all(fs) == ClearFrom(fs, 1)

\* a u64 returned by a call
U64(n) == [tag |-> "u64", v |-> n]

\* CacheEntry::remaining_ttl panics: the same sum, the same overflow
RemainingTtlPanics(e) == overflow_checks /\ AddOverflows(e.timestamp, e.ttl_seconds)

\* CacheEntry::remaining_ttl, when it returns:
\* (self.timestamp + self.ttl_seconds).saturating_sub(now)
remaining_ttl(e, t) == SaturatingSub(WrappingAdd(e.timestamp, e.ttl_seconds), t)

\* the three methods of a CacheEntry called at time t: what each returns
EntryTimesRet(e, t) ==
  [is_valid |-> IF IsValidPanics(e) THEN Panic ELSE Bool(EntryIsValid(e, t)),
   age_seconds |-> U64(age_seconds(e, t)),
   remaining_ttl |-> IF RemainingTtlPanics(e) THEN Panic
                     ELSE U64(remaining_ttl(e, t))]

\* a cache call leaves the build, the store's TTL and the registry alone
CacheFrame == UNCHANGED <<overflow_checks, ttl_seconds, cfg, wres, sync, procs>>

\* Cache::get(cache_type)
Get(ct) ==
  /\ ops < MaxOps
  /\ LET r == GetRet(files, ct) IN
       /\ files' = r.fs
       /\ cres' = Call("get", ct, None, r.ret)
  /\ ops' = ops + 1
  /\ UNCHANGED now
  /\ CacheFrame

\* Cache::set(cache_type, data)
Set(ct, data) ==
  /\ ops < MaxOps
  /\ files' = SetRet(files, ct, data)
  /\ cres' = Call("set", ct, Some(data), Ok)
  /\ ops' = ops + 1
  /\ UNCHANGED now
  /\ CacheFrame

\* Cache::get_entry(cache_type)
GetEntry(ct) ==
  /\ ops < MaxOps
  /\ cres' = Call("get_entry", ct, None, get_entry(files, ct))
  /\ ops' = ops + 1
  /\ UNCHANGED <<now, files>>
  /\ CacheFrame

\* Something other than the store leaves text in a cache file that does not
\* deserialize into a CacheEntry (a truncated write, an older format).
Corrupt(ct) ==
  /\ ops < MaxOps
  /\ files[ct] # Garbage
  /\ files' = WriteFile(files, ct, Garbage)
  /\ cres' = Call("corrupt", ct, None, Ok)
  /\ ops' = ops + 1
  /\ UNCHANGED now
  /\ CacheFrame

\* the cache types, sub-keys and values the keyed calls are given
KeyedTypes == {"Teams", "Users"}
SubKeys == {"k1", "k2"}
SubValues == {JString("a"), JString("b")}
\* whole values stored under a type that keyed calls then meet: a list and a map
WholeValues ==
  { JArray(<<JString("a"), JString("b")>>),
    JObject([k \in {"k1"} |-> JString("a")]) }

\* Cache::get_keyed(cache_type, key)
GetKeyed(ct, key) ==
  /\ ops < MaxOps
  /\ LET r == get_keyed(files, ct, key) IN
       /\ files' = r.fs
       /\ cres' = Call("get_keyed", ct, Some([key |-> key]), r.ret)
  /\ ops' = ops + 1
  /\ UNCHANGED now
  /\ CacheFrame

\* Cache::set_keyed(cache_type, key, value)
SetKeyed(ct, key, value) ==
  /\ ops < MaxOps
  /\ LET r == set_keyed(files, ct, key, value) IN
       /\ files' = r.fs
       /\ cres' = Call("set_keyed", ct, Some([key |-> key, value |-> value]), r.ret)
  /\ ops' = ops + 1
  /\ UNCHANGED now
  /\ CacheFrame

\* Cache::is_valid(cache_type)
IsValid(ct) ==
  /\ ops < MaxOps
  /\ LET r == is_valid(files, ct) IN
       /\ files' = r.fs
       /\ cres' = Call("is_valid", ct, None, r.ret)
  /\ ops' = ops + 1
  /\ UNCHANGED now
  /\ CacheFrame

\* Cache::status()
Status ==
  /\ ops < MaxOps
  /\ cres' = Call("status", "all", None, status_all(files))
  /\ ops' = ops + 1
  /\ UNCHANGED <<now, files>>
  /\ CacheFrame

\* Cache::clear_type(cache_type)
ClearType(ct) ==
  /\ ops < MaxOps
  /\ LET r == clear_type(files, ct) IN
       /\ files' = r.fs
       /\ cres' = Call("clear_type", ct, None, r.ret)
  /\ ops' = ops + 1
  /\ UNCHANGED now
  /\ CacheFrame

\* Cache::clear_all()
ClearAll ==
  /\ ops < MaxOps
  /\ LET r == clear_all(files) IN
       /\ files' = r.fs
       /\ cres' = Call("clear_all", "all", None, r.ret)
  /\ ops' = ops + 1
  /\ UNCHANGED now
  /\ CacheFrame

\* Cache::with_ttl(ttl_seconds): a store over the same cache directory
with_ttl(t) == t

\* Cache::new(): Self::with_ttl(DEFAULT_TTL_SECONDS)
new == with_ttl(DEFAULT_TTL_SECONDS)

\* the program builds a store with Cache::new() and uses it from here on
New ==
  /\ ttl_seconds' = new
  /\ cres' = Call("new", "all", None, Ok)
  /\ UNCHANGED <<now, overflow_checks, files, ops, cfg, wres, sync, procs>>

\* the program builds a store with Cache::with_ttl(t) and uses it from here on
WithTtl(t) ==
  /\ ttl_seconds' = with_ttl(t)
  /\ cres' = Call("with_ttl", "all", Some(t), Ok)
  /\ UNCHANGED <<now, overflow_checks, files, ops, cfg, wres, sync, procs>>

\* get_entry(cache_type), then is_valid(), age_seconds() and remaining_ttl() on
\* the entry it returned
EntryTimes(ct) ==
  /\ ops < MaxOps
  /\ get_entry(files, ct) # None
  /\ cres' = Call("entry_times", ct, None, EntryTimesRet(get_entry(files, ct).v, now))
  /\ ops' = ops + 1
  /\ UNCHANGED <<now, files>>
  /\ CacheFrame

\* the clock advances by a second
Tick ==
  /\ now < MaxNow
  /\ now' = now + 1
  /\ UNCHANGED <<files, cres, ops>>
  /\ CacheFrame


(***************************************************************************)
(* config.rs                                                               *)
(***************************************************************************)
\* workspace names and credentials the calls are given
Names == {"default", "a", "b"}
ApiKeys == {"key1", "key2"}
\* std::env::var("LINEAR_API_KEY"): unset, empty, or a credential
EnvValues == {None, Some(""), Some("envkey")}

\* struct Workspace
Workspace(key) == [api_key |-> key]

\* struct Config
Config(current, workspaces, api_key) ==
  [api_key |-> api_key, current |-> current, workspaces |-> workspaces]

\* HashMap::new()
EmptyMap == [n \in {} |-> Workspace("")]

\* HashMap::insert
Insert(m, k, v) == [n \in DOMAIN m \cup {k} |-> IF n = k THEN v ELSE m[n]]

\* HashMap::remove
Remove(m, k) == [n \in DOMAIN m \ {k} |-> m[n]]

\* Config::default()
DefaultConfig == Config(None, EmptyMap, None)

\* toml::to_string_pretty(config): a None field is left out of the text
toml_to_string(c) ==
  [kind |-> "toml", api_key |-> c.api_key, current |-> c.current,
   workspaces |-> c.workspaces]

\* toml::from_str::<Config>(&content): a field left out reads as None
toml_from_str(content) ==
  Config(content.current, content.workspaces, content.api_key)

\* save_config(&config): the registry file afterwards
save_config(c) == toml_to_string(c)

\* load_config(): the Config it returns, the registry file it leaves, and
\* whether it wrote it
load_config(file) ==
  IF file.kind = "absent"
    THEN [config |-> DefaultConfig, file |-> file, saved |-> FALSE]
  ELSE
    LET read == toml_from_str(file)
        taken == [read EXCEPT !.api_key = None]
    IN
    IF read.api_key # None /\ "default" \notin DOMAIN read.workspaces
      THEN
        LET migrated ==
              [taken EXCEPT
                 !.workspaces = Insert(read.workspaces, "default",
                                       Workspace(read.api_key.v)),
                 !.current = IF read.current = None THEN Some("default")
                             ELSE read.current]
        IN [config |-> migrated, file |-> save_config(migrated), saved |-> TRUE]
      ELSE [config |-> taken, file |-> file, saved |-> FALSE]

\* the record kept of a registry call
CfgCall(op, name, key, env, ret, loaded) ==
  [op |-> op, name |-> name, key |-> key, env |-> env, ret |-> ret,
   loaded |-> loaded, pre |-> cfg]

\* no registry call made yet
NoCfgCall == [op |-> "none", name |-> "", key |-> "", env |-> None, ret |-> Ok,
              loaded |-> FALSE, pre |-> NoFile]

\* get_api_key taking an empty LINEAR_API_KEY for a credential
get_api_key_empty_env(env, file) ==
  IF env # None
    THEN [ret |-> OkWith(env.v), file |-> file, loaded |-> FALSE]
  ELSE
    LET l == load_config(file)
        c == l.config
    IN
    IF c.current = None
      THEN [ret |-> Err("No workspace selected"), file |-> l.file, loaded |-> TRUE]
    ELSE IF c.current.v \notin DOMAIN c.workspaces
      THEN [ret |-> Err("Workspace not found"), file |-> l.file, loaded |-> TRUE]
    ELSE [ret |-> OkWith(c.workspaces[c.current.v].api_key), file |-> l.file,
          loaded |-> TRUE]

\* get_api_key falling back to the workspace "default" when none is current
get_api_key_default_fallback(env, file) ==
  LET l == load_config(file)
      c == l.config
      name == IF c.current = None THEN "default" ELSE c.current.v
  IN
  IF env # None /\ env.v # ""
    THEN [ret |-> OkWith(env.v), file |-> file, loaded |-> FALSE]
  ELSE IF name \notin DOMAIN c.workspaces
    THEN [ret |-> Err("Workspace not found"), file |-> l.file, loaded |-> TRUE]
  ELSE [ret |-> OkWith(c.workspaces[name].api_key), file |-> l.file,
        loaded |-> TRUE]

\* get_api_key(): what it returns, the registry file it leaves, and whether it
\* loaded the registry
get_api_key(env, file) ==
  IF env # None /\ env.v # ""
    THEN [ret |-> OkWith(env.v), file |-> file, loaded |-> FALSE]
  ELSE
    LET l == load_config(file)
        c == l.config
    IN
    IF c.current = None
      THEN [ret |-> Err("No workspace selected"), file |-> l.file, loaded |-> TRUE]
    ELSE IF c.current.v \notin DOMAIN c.workspaces
      THEN [ret |-> Err("Workspace not found"), file |-> l.file, loaded |-> TRUE]
    ELSE [ret |-> OkWith(c.workspaces[c.current.v].api_key), file |-> l.file,
          loaded |-> TRUE]

\* get_api_key() in a process whose LINEAR_API_KEY is env
GetApiKey(env) ==
  /\ LET r == get_api_key(env, cfg) IN
       /\ cfg' = r.file
       /\ wres' = CfgCall("get_api_key", "", "", env, r.ret, r.loaded)
  /\ UNCHANGED <<cacheVars, runVars>>

\* set_api_key(key): the registry file it leaves
set_api_key(key, file) ==
  LET l == load_config(file)
      c == l.config
      workspace_name == IF c.current = None THEN "default" ELSE c.current.v
      inserted == [c EXCEPT !.workspaces = Insert(c.workspaces, workspace_name,
                                                  Workspace(key))]
      selected == IF inserted.current = None
                    THEN [inserted EXCEPT !.current = Some("default")]
                    ELSE inserted
  IN save_config(selected)

\* set_api_key(key)
SetApiKey(key) ==
  /\ cfg' = set_api_key(key, cfg)
  /\ wres' = CfgCall("set_api_key", "", key, None, Ok, TRUE)
  /\ UNCHANGED <<cacheVars, runVars>>

\* workspace_add making the added workspace current every time
workspace_add_select(name, api_key, file) ==
  LET l == load_config(file)
      c == l.config
      inserted == [c EXCEPT !.workspaces = Insert(c.workspaces, name,
                                                  Workspace(api_key)),
                            !.current = Some(name)]
  IN
  IF name \in DOMAIN c.workspaces
    THEN [ret |-> Err("already exists"), file |-> l.file]
    ELSE [ret |-> Ok, file |-> save_config(inserted)]

\* workspace_add without the check for a registered name
workspace_add_overwrite(name, api_key, file) ==
  LET l == load_config(file)
      c == l.config
      inserted == [c EXCEPT !.workspaces = Insert(c.workspaces, name,
                                                  Workspace(api_key))]
      selected == IF inserted.current = None
                    THEN [inserted EXCEPT !.current = Some(name)]
                    ELSE inserted
  IN [ret |-> Ok, file |-> save_config(selected)]

\* workspace_add(name, api_key): what it returns and the registry file it leaves
workspace_add(name, api_key, file) ==
  LET l == load_config(file)
      c == l.config
      inserted == [c EXCEPT !.workspaces = Insert(c.workspaces, name,
                                                  Workspace(api_key))]
      selected == IF inserted.current = None
                    THEN [inserted EXCEPT !.current = Some(name)]
                    ELSE inserted
  IN
  IF name \in DOMAIN c.workspaces
    THEN [ret |-> Err("already exists"), file |-> l.file]
    ELSE [ret |-> Ok, file |-> save_config(selected)]

\* workspace_add(name, api_key)
WorkspaceAdd(name, api_key) ==
  /\ LET r == workspace_add(name, api_key, cfg) IN
       /\ cfg' = r.file
       /\ wres' = CfgCall("workspace_add", name, api_key, None, r.ret, TRUE)
  /\ UNCHANGED <<cacheVars, runVars>>

\* workspace_switch saving the new current before it checks the name
workspace_switch_save_first(name, file) ==
  LET l == load_config(file)
      c == l.config
      saved == save_config([c EXCEPT !.current = Some(name)])
  IN
  IF name \notin DOMAIN c.workspaces
    THEN [ret |-> Err("not found"), file |-> saved]
    ELSE [ret |-> Ok, file |-> saved]

\* workspace_switch without the check for a registered name
workspace_switch_unchecked(name, file) ==
  LET l == load_config(file)
      c == l.config
  IN [ret |-> Ok, file |-> save_config([c EXCEPT !.current = Some(name)])]

\* workspace_switch(name): what it returns and the registry file it leaves
workspace_switch(name, file) ==
  LET l == load_config(file)
      c == l.config
  IN
  IF name \notin DOMAIN c.workspaces
    THEN [ret |-> Err("not found"), file |-> l.file]
    ELSE [ret |-> Ok, file |-> save_config([c EXCEPT !.current = Some(name)])]

\* workspace_switch(name)
WorkspaceSwitch(name) ==
  /\ LET r == workspace_switch(name, cfg) IN
       /\ cfg' = r.file
       /\ wres' = CfgCall("workspace_switch", name, "", None, r.ret, TRUE)
  /\ UNCHANGED <<cacheVars, runVars>>

\* config.workspaces.keys().next().cloned(): the candidates, one per iteration
\* order of the HashMap
KeysNext(m) == IF DOMAIN m = {} THEN {None} ELSE {Some(n) : n \in DOMAIN m}

\* workspace_remove leaving current as it was
workspace_remove_keep_current(name, file) ==
  LET l == load_config(file)
      c == l.config
      removed == [c EXCEPT !.workspaces = Remove(c.workspaces, name)]
  IN
  IF name \notin DOMAIN c.workspaces
    THEN {[ret |-> Err("not found"), file |-> l.file]}
    ELSE {[ret |-> Ok, file |-> save_config(removed)]}

\* workspace_remove clearing current whenever the current workspace is removed
workspace_remove_clear(name, file) ==
  LET l == load_config(file)
      c == l.config
      removed == [c EXCEPT !.workspaces = Remove(c.workspaces, name)]
  IN
  IF name \notin DOMAIN c.workspaces
    THEN {[ret |-> Err("not found"), file |-> l.file]}
  ELSE IF c.current = Some(name)
    THEN {[ret |-> Ok, file |-> save_config([removed EXCEPT !.current = None])]}
  ELSE {[ret |-> Ok, file |-> save_config(removed)]}

\* workspace_remove choosing the next current workspace before it removes
workspace_remove_choose_first(name, file) ==
  LET l == load_config(file)
      c == l.config
      removed == [c EXCEPT !.workspaces = Remove(c.workspaces, name)]
  IN
  IF name \notin DOMAIN c.workspaces
    THEN {[ret |-> Err("not found"), file |-> l.file]}
  ELSE IF c.current = Some(name)
    THEN {[ret |-> Ok, file |-> save_config([removed EXCEPT !.current = next])] :
            next \in KeysNext(c.workspaces)}
  ELSE {[ret |-> Ok, file |-> save_config(removed)]}

\* workspace_remove(name): every (return value, registry file) it can end in
workspace_remove(name, file) ==
  LET l == load_config(file)
      c == l.config
      removed == [c EXCEPT !.workspaces = Remove(c.workspaces, name)]
  IN
  IF name \notin DOMAIN c.workspaces
    THEN {[ret |-> Err("not found"), file |-> l.file]}
  ELSE IF c.current = Some(name)
    THEN {[ret |-> Ok, file |-> save_config([removed EXCEPT !.current = next])] :
            next \in KeysNext(removed.workspaces)}
  ELSE {[ret |-> Ok, file |-> save_config(removed)]}

\* workspace_remove(name)
WorkspaceRemove(name) ==
  /\ \E r \in workspace_remove(name, cfg) :
       /\ cfg' = r.file
       /\ wres' = CfgCall("workspace_remove", name, "", None, r.ret, TRUE)
  /\ UNCHANGED <<cacheVars, runVars>>

\* the chars of a String: the api keys of the registry, and keys of 0, 10, 12, 13
\* and 20 chars and keys with chars of two bytes that are put on display
Chars(s) ==
  CASE s = "" -> <<>>
       [] s = "key1" -> <<"k", "e", "y", "1">>
       [] s = "key2" -> <<"k", "e", "y", "2">>
       [] s = "0123456789" -> <<"0", "1", "2", "3", "4", "5", "6", "7", "8", "9">>
       [] s = "0123456789ab" -> <<"0", "1", "2", "3", "4", "5", "6", "7", "8", "9", "a", "b">>
       [] s = "0123456789abc" -> <<"0", "1", "2", "3", "4", "5", "6", "7", "8", "9", "a", "b", "c">>
       [] s = "0123456789abcdefghij" -> <<"0", "1", "2", "3", "4", "5", "6", "7", "8", "9", "a", "b", "c", "d", "e", "f", "g", "h", "i", "j">>
       [] s = "0123456é89ab" -> <<"0", "1", "2", "3", "4", "5", "6", "é", "8", "9", "a", "b">>
       [] s = "éééééé0" -> <<"é", "é", "é", "é", "é", "é", "0">>
       [] s = "ééééééé" -> <<"é", "é", "é", "é", "é", "é", "é">>

\* char::len_utf8
len_utf8(c) == IF c = "é" THEN 2 ELSE 1

\* the length in bytes of a sequence of chars
RECURSIVE ByteLen(_)
ByteLen(cs) == IF cs = <<>> THEN 0 ELSE len_utf8(Head(cs)) + ByteLen(Tail(cs))

\* String::len(): the length in bytes
StrLen(s) == ByteLen(Chars(s))

\* the number of chars that end at byte index i, for i a char boundary
CharsUpTo(cs, i) == {n \in 0..Len(cs) : ByteLen(SubSeq(cs, 1, n)) = i}

\* str::is_char_boundary
is_char_boundary(cs, i) == CharsUpTo(cs, i) # {}

\* the String of a sequence of chars
RECURSIVE Str(_)
Str(cs) == IF cs = <<>> THEN "" ELSE Head(cs) \o Str(Tail(cs))

\* &key[..i]: panics when i is not a char boundary
SliceTo(cs, i) ==
  IF is_char_boundary(cs, i)
    THEN Some(SubSeq(cs, 1, CHOOSE n \in CharsUpTo(cs, i) : TRUE))
    ELSE Panic

\* &key[i..]: panics when i is not a char boundary
SliceFrom(cs, i) ==
  IF is_char_boundary(cs, i)
    THEN Some(SubSeq(cs, (CHOOSE n \in CharsUpTo(cs, i) : TRUE) + 1, Len(cs)))
    ELSE Panic

\* a String put on display
Text(s) == [tag |-> "text", v |-> s]

\* the display of an api key that never shortens it
masked_never(key) == Text(key)

\* the display of an api key in show_config, workspace_list and
\* workspace_current: key.len() > 12, &key[..8], "...", &key[key.len() - 4..]
masked(key) ==
  LET cs == Chars(key)
      head == SliceTo(cs, 8)
      tail == SliceFrom(cs, StrLen(key) - 4)
  IN
  IF StrLen(key) > 12
    THEN IF head = Panic \/ tail = Panic THEN Panic
         ELSE Text(Str(head.v) \o "..." \o Str(tail.v))
    ELSE Text(key)

\* what a command has printed before it returned Ok
Printed(out) == [tag |-> "ok", out |-> out]

\* the lines about the current workspace in show_config and workspace_current
CurrentLines(c) ==
  IF c.current = None THEN Printed([current |-> None, key |-> None])
  ELSE IF c.current.v \notin DOMAIN c.workspaces
    THEN Printed([current |-> c.current, key |-> None])
  ELSE IF masked(c.workspaces[c.current.v].api_key) = Panic THEN Panic
  ELSE Printed([current |-> c.current,
                key |-> Some(masked(c.workspaces[c.current.v].api_key))])

\* show_config(): what it prints and the registry file it leaves
show_config(file) ==
  [ret |-> CurrentLines(load_config(file).config), file |-> load_config(file).file]

\* show_config()
ShowConfig ==
  /\ LET r == show_config(cfg) IN
       /\ cfg' = r.file
       /\ wres' = CfgCall("show_config", "", "", None, r.ret, TRUE)
  /\ UNCHANGED <<cacheVars, runVars>>

\* workspace_list writing back the registry it loaded
workspace_list_saving(file) ==
  [ret |-> Ok, file |-> save_config(load_config(file).config)]

\* workspace_list(): what it prints, one line per workspace in the order of the
\* HashMap, and the registry file it leaves
workspace_list(file) ==
  LET c == load_config(file).config
      lines == {[marker |-> IF c.current = Some(n) THEN "*" ELSE " ",
                 name |-> n,
                 key |-> masked(c.workspaces[n].api_key)] : n \in DOMAIN c.workspaces}
  IN
  [ret |-> IF \E l \in lines : l.key = Panic THEN Panic ELSE Printed(lines),
   file |-> load_config(file).file]

\* workspace_list()
WorkspaceList ==
  /\ LET r == workspace_list(cfg) IN
       /\ cfg' = r.file
       /\ wres' = CfgCall("workspace_list", "", "", None, r.ret, TRUE)
  /\ UNCHANGED <<cacheVars, runVars>>

\* workspace_current(): what it prints and the registry file it leaves
workspace_current(file) ==
  [ret |-> CurrentLines(load_config(file).config), file |-> load_config(file).file]

\* workspace_current()
WorkspaceCurrent ==
  /\ LET r == workspace_current(cfg) IN
       /\ cfg' = r.file
       /\ wres' = CfgCall("workspace_current", "", "", None, r.ret, TRUE)
  /\ UNCHANGED <<cacheVars, runVars>>

\* the workspaces maps a registry file can hold
WorkspaceMaps ==
  UNION {[S -> {Workspace(k) : k \in ApiKeys}] : S \in SUBSET Names}

\* the registry files an installation can hold: written by this version, by the
\* version before workspaces (legacy api_key), or edited by hand
RegistryFiles ==
  {NoFile} \cup
  {toml_to_string(Config(c, w, k)) :
     c \in {None} \cup {Some(n) : n \in Names},
     w \in WorkspaceMaps,
     k \in {None} \cup {Some(a) : a \in ApiKeys}}

CacheIdle ==
  /\ now = 0
  /\ overflow_checks = FALSE
  /\ ttl_seconds = DEFAULT_TTL_SECONDS
  /\ files = [ct \in CacheTypes |-> NoFile]
  /\ cres = NoCall
  /\ ops = 0
  /\ Sequential

\* a fresh installation: no registry file, or a registry holding nothing
InitConfig ==
  /\ cfg \in {NoFile, toml_to_string(DefaultConfig)}
  /\ wres = NoCfgCall
  /\ CacheIdle

\* an installation with any registry file
InitConfigAny ==
  /\ cfg \in RegistryFiles
  /\ wres = NoCfgCall
  /\ CacheIdle

NextConfig ==
  \/ \E env \in EnvValues : GetApiKey(env)
  \/ \E key \in ApiKeys : SetApiKey(key)
  \/ \E name \in Names, key \in ApiKeys : WorkspaceAdd(name, key)
  \/ \E name \in Names : WorkspaceSwitch(name)
  \/ \E name \in Names : WorkspaceRemove(name)
  \/ WorkspaceList
  \/ WorkspaceCurrent
  \/ ShowConfig
SpecConfig == InitConfig /\ [][NextConfig]_vars

SpecConfigAny == InitConfigAny /\ [][NextConfig]_vars

\* the api keys put on display
DisplayKeys == {"", "0123456789", "0123456789ab", "0123456789abc", "0123456789abcdefghij", "0123456é89ab", "éééééé0", "ééééééé"}

\* registry files with one or two workspaces holding those keys
MaskFiles ==
  {save_config(Config(cur, ws, None)) :
     cur \in {None} \cup {Some(n) : n \in Names},
     ws \in UNION {[S -> {Workspace(k) : k \in DisplayKeys}] :
                     S \in {T \in SUBSET Names : Cardinality(T) \in 1..2}}}

InitMask ==
  /\ cfg \in MaskFiles
  /\ wres = NoCfgCall
  /\ CacheIdle

\* the commands that display an api key
NextMask ==
  \/ ShowConfig
  \/ WorkspaceList
  \/ WorkspaceCurrent
SpecMask == InitMask /\ [][NextMask]_vars


(***************************************************************************)
(* The cache store as a state machine                                      *)
(***************************************************************************)
\* Cache::new() / Cache::with_ttl(t) over an empty cache directory
InitCache ==
  /\ now \in 0..1
  /\ overflow_checks \in BOOLEAN
  /\ ttl_seconds \in TTLs
  /\ files = [ct \in CacheTypes |-> NoFile]
  /\ cres = NoCall
  /\ ops = 0
  /\ Sequential
  /\ cfg = NoFile
  /\ wres = NoCfgCall

NextCache ==
  \/ Tick
  \/ \E ct \in CacheTypes : Get(ct)
  \/ \E ct \in CacheTypes, data \in Values : Set(ct, data)
  \/ \E ct \in CacheTypes : GetEntry(ct)
  \/ \E ct \in CacheTypes : Corrupt(ct)

SpecCache == InitCache /\ [][NextCache]_vars

\* the keyed calls, next to the whole-value writes and damaged files they meet
NextKeyed ==
  \/ Tick
  \/ \E ct \in KeyedTypes, data \in WholeValues : Set(ct, data)
  \/ \E ct \in KeyedTypes, key \in SubKeys, value \in SubValues :
       SetKeyed(ct, key, value)
  \/ \E ct \in KeyedTypes, key \in SubKeys : GetKeyed(ct, key)
  \/ \E ct \in KeyedTypes : Corrupt(ct)
SpecKeyed == InitCache /\ [][NextKeyed]_vars

\* stores of different TTLs writing and reading the same directory
NextStores ==
  \/ Tick
  \/ New
  \/ \E t \in TTLs : WithTtl(t)
  \/ \E ct \in KeyedTypes, data \in WholeValues : Set(ct, data)
  \/ \E ct \in KeyedTypes : Get(ct)
SpecStores == InitCache /\ [][NextStores]_vars

\* what a cache file left by earlier runs can hold: nothing, text that is no
\* entry, an entry that expires one second after time 0, an entry of the default
\* TTL, and an entry written at time 1 by a store built with_ttl(u64::MAX)
Expiring == to_string_pretty(CacheEntry(0, 1, JArray(<<JString("a"), JString("b")>>)))
Lasting == to_string_pretty(CacheEntry(0, DEFAULT_TTL_SECONDS, JString("a")))
Unending ==
  to_string_pretty(CacheEntry(1, U64_MAX, JObject([k \in {"k1"} |-> JString("a")])))
LeftFiles == {NoFile, Garbage, Expiring, Lasting, Unending}

\* the cache directories a store is opened over: any mix of those files
Directories == [CacheTypes -> LeftFiles]

\* Cache::new() over a cache directory that earlier runs have used
InitAdmin ==
  /\ now \in 0..1
  /\ overflow_checks \in BOOLEAN
  /\ ttl_seconds = DEFAULT_TTL_SECONDS
  /\ files \in Directories
  /\ cres = NoCall
  /\ ops = 0
  /\ Sequential
  /\ cfg = NoFile
  /\ wres = NoCfgCall

\* the reads, the status report and the invalidation calls
NextAdmin ==
  \/ Tick
  \/ \E ct \in KeyedTypes : Get(ct)
  \/ \E ct \in KeyedTypes : GetKeyed(ct, "k1")
  \/ \E ct \in KeyedTypes : IsValid(ct)
  \/ \E ct \in KeyedTypes : GetEntry(ct)
  \/ Status
  \/ \E ct \in KeyedTypes : ClearType(ct)
  \/ ClearAll
SpecAdmin == InitAdmin /\ [][NextAdmin]_vars

\* timestamps an entry on disk can carry: past, future, and the ends of u64
Timestamps == {0, 1, 2, U64_MAX - 1, U64_MAX}

\* a directory with one entry of any of those timestamps and any TTL
InitEntry ==
  /\ now \in 0..1
  /\ overflow_checks \in BOOLEAN
  /\ ttl_seconds = DEFAULT_TTL_SECONDS
  /\ \E ts \in Timestamps, ttl \in TTLs :
       files = [ct \in CacheTypes |->
                  IF ct = "Teams"
                    THEN to_string_pretty(CacheEntry(ts, ttl, JString("a")))
                    ELSE NoFile]
  /\ cres = NoCall
  /\ ops = 0
  /\ Sequential
  /\ cfg = NoFile
  /\ wres = NoCfgCall

\* the methods of CacheEntry, at any time
NextEntry ==
  \/ Tick
  \/ \E ct \in CacheTypes : EntryTimes(ct)
SpecEntry == InitEntry /\ [][NextEntry]_vars

(***************************************************************************)
(* Two processes on one cache file: the calls step by step                 *)
(***************************************************************************)
\* the cache type both processes work on
RaceType == "Teams"

\* fs::write over a file another process wrote since it was truncated: the new
\* text replaces the beginning of the old one, and what is longer stays
Overwrite(old, content) ==
  IF FileLen(old) > FileLen(content) THEN Torn(FileLen(old)) ELSE content

\* Cache::get returns: to the caller, or to set_keyed, which goes on with set
GetReturns(pr, result) ==
  IF pr.op = "get" \/ result = Panic
    THEN [pr EXCEPT !.pc = "done", !.ret = result]
    ELSE [pr EXCEPT !.pc = "create", !.base = result]

RaceFrame == UNCHANGED <<overflow_checks, ttl_seconds, cres, ops, cfg, wres, sync>>

\* a process begins a call at the current time, over the file as it is
Begin(op, key, arg, pc) ==
  [IdleProc EXCEPT !.pc = pc, !.op = op, !.key = key, !.arg = arg, !.at = now,
                   !.pre = Some(files[RaceType])]

\* a process calls get(RaceType)
StartGet(p) ==
  /\ procs[p].pc = "idle"
  /\ procs' = [procs EXCEPT ![p] = Begin("get", None, None, "exists")]
  /\ UNCHANGED <<now, files>>
  /\ RaceFrame

\* a process calls set(RaceType, data)
StartSet(p, data) ==
  /\ procs[p].pc = "idle"
  /\ procs' = [procs EXCEPT ![p] = Begin("set", None, Some(data), "create")]
  /\ UNCHANGED <<now, files>>
  /\ RaceFrame

\* a process calls set_keyed(RaceType, key, value), which begins with get
StartSetKeyed(p, key, value) ==
  /\ procs[p].pc = "idle"
  /\ procs' = [procs EXCEPT ![p] = Begin("set_keyed", Some(key), Some(value), "exists")]
  /\ UNCHANGED <<now, files>>
  /\ RaceFrame

\* get: if !path.exists() { return None; }
CheckExists(p) ==
  /\ procs[p].pc = "exists"
  /\ procs' = [procs EXCEPT ![p] =
                 IF Exists(files, RaceType) THEN [@ EXCEPT !.pc = "read"]
                                            ELSE GetReturns(@, None)]
  /\ UNCHANGED <<now, files>>
  /\ RaceFrame

\* get: read_to_string(&path).ok()?, from_str(&content).ok()?, entry.is_valid()
ReadEntry(p) ==
  /\ procs[p].pc = "read"
  /\ LET parsed == get_entry(files, RaceType)
         seen == [procs[p] EXCEPT !.snap = Some(files[RaceType])]
     IN procs' = [procs EXCEPT ![p] =
                    IF parsed = None THEN GetReturns(seen, None)
                    ELSE IF IsValidPanics(parsed.v) THEN GetReturns(seen, Panic)
                    ELSE IF EntryIsValid(parsed.v, now)
                      THEN GetReturns(seen, Some(parsed.v.data))
                    ELSE [seen EXCEPT !.pc = "remove"]]
  /\ UNCHANGED <<now, files>>
  /\ RaceFrame

\* the other processes after the file is unlinked: one that has the file open
\* for writing keeps writing to the unlinked file
Unlinked(p) ==
  [q \in Procs |->
     IF q # p /\ procs[q].pc = "write" THEN [procs[q] EXCEPT !.orphan = TRUE]
                                       ELSE procs[q]]

\* get with fs::remove_file(&path)? in place of let _ = fs::remove_file(&path)
RemoveExpiredOrFail(p) ==
  /\ procs[p].pc = "remove"
  /\ files' = RemoveFile(files, RaceType)
  /\ procs' = [Unlinked(p) EXCEPT ![p] =
                 IF Exists(files, RaceType)
                   THEN GetReturns([@ EXCEPT !.rm = Some([file |-> files[RaceType],
                                                           at |-> now])], None)
                   ELSE [@ EXCEPT !.pc = "done", !.ret = Err("remove_file"),
                                  !.rm = Some([file |-> files[RaceType], at |-> now])]]
  /\ UNCHANGED now
  /\ RaceFrame

\* get: let _ = fs::remove_file(&path); None
RemoveExpired(p) ==
  /\ procs[p].pc = "remove"
  /\ files' = RemoveFile(files, RaceType)
  /\ procs' = [Unlinked(p) EXCEPT ![p] =
                 GetReturns([@ EXCEPT !.rm = Some([file |-> files[RaceType],
                                                   at |-> now])], None)]
  /\ UNCHANGED now
  /\ RaceFrame

\* the value set is called with: the argument of set, or for set_keyed the map
\* get returned (or the empty map) with the key inserted
SetData(pr) ==
  IF pr.op = "set" THEN pr.arg.v
  ELSE InsertMember(IF pr.base = None THEN EmptyObject ELSE pr.base.v,
                    pr.key.v, pr.arg.v)

\* set: the entry is stamped and serialised, and fs::write opens the file,
\* which creates or truncates it
CreateFile(p) ==
  /\ procs[p].pc = "create"
  /\ files' = WriteFile(files, RaceType, EmptyFile)
  /\ procs' = [procs EXCEPT ![p] =
                 [@ EXCEPT !.pc = "write", !.orphan = FALSE,
                           !.content = Some(to_string_pretty(
                              CacheEntry(now, ttl_seconds, SetData(procs[p]))))]]
  /\ UNCHANGED now
  /\ RaceFrame

\* set: fs::write writes the text through the file it opened, and set returns
WriteContent(p) ==
  /\ procs[p].pc = "write"
  /\ files' = IF procs[p].orphan THEN files
              ELSE WriteFile(files, RaceType,
                             Overwrite(files[RaceType], procs[p].content.v))
  /\ procs' = [q \in Procs |->
                 IF q = p THEN [procs[q] EXCEPT !.pc = "done", !.ret = Ok, !.last = TRUE]
                          ELSE [procs[q] EXCEPT !.last = FALSE]]
  /\ UNCHANGED now
  /\ RaceFrame

\* the file the two processes meet on: missing, expired at time 1, or valid
Lapsing == to_string_pretty(CacheEntry(0, 1, JObject([k \in {"k1"} |-> JString("a")])))
Holding ==
  to_string_pretty(CacheEntry(0, DEFAULT_TTL_SECONDS,
                              JObject([k \in {"k1"} |-> JString("a")])))
RaceFiles == {NoFile, Lapsing, Holding}

\* the values a racing set is given: two of one length and a longer one
RaceValues == {JString("a"), JString("b"), JArray(<<JString("a"), JString("b")>>)}

InitCacheRace ==
  /\ now \in 0..1
  /\ overflow_checks \in BOOLEAN
  /\ ttl_seconds = DEFAULT_TTL_SECONDS
  /\ files \in {[ct \in CacheTypes |-> IF ct = RaceType THEN f ELSE NoFile] :
                  f \in RaceFiles}
  /\ cres = NoCall
  /\ ops = 0
  /\ cfg = NoFile
  /\ wres = NoCfgCall
  /\ sync = NoSync
  /\ procs = NoProcs

NextCacheRace ==
  \/ Tick
  \/ \E p \in Procs : StartGet(p)
  \/ \E p \in Procs, data \in RaceValues : StartSet(p, data)
  \/ \E p \in Procs, key \in SubKeys : StartSetKeyed(p, key, JString("b"))
  \/ \E p \in Procs : CheckExists(p)
  \/ \E p \in Procs : ReadEntry(p)
  \/ \E p \in Procs : RemoveExpired(p)
  \/ \E p \in Procs : CreateFile(p)
  \/ \E p \in Procs : WriteContent(p)
SpecCacheRace == InitCacheRace /\ [][NextCacheRace]_vars

(***************************************************************************)
(* Two processes on the registry file: the mutations step by step          *)
(***************************************************************************)
\* bytes of a workspace name
NameLen(name) == IF name = "default" THEN 7 ELSE 1

RECURSIVE TablesLen(_, _)
\* bytes of the tables [workspaces.<name>] of the names in S, api_key line and
\* blank line included
TablesLen(workspaces, S) ==
  IF S = {} THEN 0
  ELSE LET n == CHOOSE x \in S : TRUE
       IN 28 + NameLen(n) + StrLen(workspaces[n].api_key) + TablesLen(workspaces, S \ {n})

\* bytes of the registry file
RegistryLen(file) ==
  IF file.kind = "toml"
    THEN (IF file.api_key = None THEN 0 ELSE 13 + StrLen(file.api_key.v))
         + (IF file.current = None THEN 0 ELSE 13 + NameLen(file.current.v))
         + TablesLen(file.workspaces, DOMAIN file.workspaces)
  ELSE IF file.kind = "torn" THEN file.len
  ELSE 0

\* fs::write over a registry another process wrote since it was truncated: the
\* new text (head) and, behind it, the end of the longer old one (tail)
OverwriteRegistry(old, content) ==
  IF RegistryLen(old) > RegistryLen(content)
    THEN [kind |-> "torn", len |-> RegistryLen(old), head |-> content,
          tail |-> IF old.kind = "torn" THEN old.tail ELSE old]
    ELSE content

\* toml::from_str of what fs::read_to_string returns: the text of the file; for
\* a truncated file the empty text, which reads as Config::default(); for a torn
\* file either no Config at all (None), or the Config of the head with tables of
\* the tail added, or, under a head that holds no table, the Config of the tail
Readings(file) ==
  IF file.kind = "empty" THEN {Some(toml_to_string(DefaultConfig))}
  ELSE IF file.kind = "torn"
    THEN {None} \cup
         (IF DOMAIN file.head.workspaces = {} THEN {Some(file.tail)} ELSE {}) \cup
         {Some([file.head EXCEPT !.workspaces =
                  [n \in DOMAIN file.head.workspaces \cup S |->
                     IF n \in S THEN file.tail.workspaces[n]
                                ELSE file.head.workspaces[n]]]) :
            S \in SUBSET (DOMAIN file.tail.workspaces \ DOMAIN file.head.workspaces)}
  ELSE {Some(file)}

\* the mutation of the process on the Config it loaded, given as the registry
\* text of that Config: every (return value, registry file) it can end in
Mutations(pr, loaded) ==
  IF pr.op = "workspace_add" THEN {workspace_add(pr.arg.v, pr.key.v, loaded)}
  ELSE IF pr.op = "workspace_switch" THEN {workspace_switch(pr.arg.v, loaded)}
  ELSE IF pr.op = "workspace_remove" THEN workspace_remove(pr.arg.v, loaded)
  ELSE {[ret |-> Ok, file |-> set_api_key(pr.key.v, loaded)]}

\* the mutation goes on after load_config returned: it fails, or it has a
\* Config to save
Mutated(pr, loaded) ==
  {IF r.ret = Ok THEN [pr EXCEPT !.pc = "create", !.content = Some(r.file)]
                 ELSE [pr EXCEPT !.pc = "done", !.ret = r.ret] :
     r \in Mutations(pr, loaded)}

RegistryFrame == UNCHANGED <<cacheVars, wres, sync>>

\* a process calls workspace_add, workspace_switch, workspace_remove or
\* set_api_key
StartMutation(p, op, name, key) ==
  /\ procs[p].pc = "idle"
  /\ procs' = [procs EXCEPT ![p] =
                 [IdleProc EXCEPT !.pc = "load", !.op = op, !.arg = name, !.key = key,
                                  !.pre = Some(cfg)]]
  /\ UNCHANGED cfg
  /\ RegistryFrame

\* load_config: path.exists(), read_to_string, from_str, and the migration of a
\* legacy api_key up to its save_config; without a migration, the mutation up
\* to its save_config
LoadConfig(p) ==
  /\ procs[p].pc = "load"
  /\ \E reading \in Readings(cfg) :
       LET seen == [procs[p] EXCEPT !.snap = Some(cfg)] IN
       IF reading = None
         THEN procs' = [procs EXCEPT ![p] =
                          [seen EXCEPT !.pc = "done", !.ret = Err("parse")]]
       ELSE LET l == load_config(reading.v) IN
            IF l.saved
              THEN procs' = [procs EXCEPT ![p] =
                               [seen EXCEPT !.pc = "migrate", !.content = Some(l.file)]]
              ELSE \E next \in Mutated(seen, reading.v) :
                     procs' = [procs EXCEPT ![p] = next]
  /\ UNCHANGED cfg
  /\ RegistryFrame

\* save_config of the migration: fs::write opens the registry, truncating it
CreateMigrated(p) ==
  /\ procs[p].pc = "migrate"
  /\ cfg' = EmptyFile
  /\ procs' = [procs EXCEPT ![p] = [@ EXCEPT !.pc = "migrated"]]
  /\ RegistryFrame

\* save_config of the migration: fs::write writes the text; load_config
\* returns, and the mutation runs up to its save_config
WriteMigrated(p) ==
  /\ procs[p].pc = "migrated"
  /\ cfg' = OverwriteRegistry(cfg, procs[p].content.v)
  /\ \E next \in Mutated(procs[p], procs[p].content.v) :
       procs' = [q \in Procs |->
                   IF q = p THEN [next EXCEPT !.last = TRUE]
                            ELSE [procs[q] EXCEPT !.last = FALSE]]
  /\ RegistryFrame

\* save_config of the mutation: fs::write opens the registry, truncating it
CreateRegistry(p) ==
  /\ procs[p].pc = "create"
  /\ cfg' = EmptyFile
  /\ procs' = [procs EXCEPT ![p] = [@ EXCEPT !.pc = "write"]]
  /\ RegistryFrame

\* save_config of the mutation: fs::write writes the text, and the call returns
WriteRegistry(p) ==
  /\ procs[p].pc = "write"
  /\ cfg' = OverwriteRegistry(cfg, procs[p].content.v)
  /\ procs' = [q \in Procs |->
                 IF q = p THEN [procs[q] EXCEPT !.pc = "done", !.ret = Ok, !.last = TRUE]
                          ELSE [procs[q] EXCEPT !.last = FALSE]]
  /\ RegistryFrame

\* the registries the two processes start on: current names a workspace that is
\* there; a legacy api_key may be left in the file
RaceRegistries ==
  UNION {{toml_to_string(Config(Some(c), [n \in S |-> Workspace("key1")], k)) :
            c \in S, k \in {None, Some("key1")}} : S \in SUBSET Names}

InitRegistryRace ==
  /\ cfg \in RaceRegistries
  /\ wres = NoCfgCall
  /\ CacheIdle

NextRegistryRace ==
  \/ \E p \in Procs, name \in Names :
       StartMutation(p, "workspace_add", Some(name), Some("key2"))
  \/ \E p \in Procs, name \in Names :
       StartMutation(p, "workspace_switch", Some(name), None)
  \/ \E p \in Procs, name \in Names :
       StartMutation(p, "workspace_remove", Some(name), None)
  \/ \E p \in Procs : StartMutation(p, "set_api_key", None, Some("key2"))
  \/ \E p \in Procs : LoadConfig(p)
  \/ \E p \in Procs : CreateMigrated(p)
  \/ \E p \in Procs : WriteMigrated(p)
  \/ \E p \in Procs : CreateRegistry(p)
  \/ \E p \in Procs : WriteRegistry(p)
SpecRegistryRace == InitRegistryRace /\ [][NextRegistryRace]_vars

(***************************************************************************)
(* commands/sync.rs: comparing local folders with Linear projects          *)
(***************************************************************************)
\* names of folders and of projects
ProjectNames == {"app", "App", "lib", "LIB"}

\* str::to_lowercase
to_lowercase(name) ==
  CASE name = "app" -> "app"
    [] name = "App" -> "app"
    [] name = "lib" -> "lib"
    [] name = "LIB" -> "lib"

\* struct LocalProject, struct LinearProject
LocalProject(name, path) == [name |-> name, path |-> path]
LinearProject(id, name) == [name |-> name, id |-> id]

\* enum SyncStatus
Synced(local, remote) == [status |-> "Synced", local |-> local, remote |-> remote]
LocalOnly(local) == [status |-> "LocalOnly", local |-> local]
RemoteOnly(remote) == [status |-> "RemoteOnly", remote |-> remote]

\* remote.iter().find(pred): the first of the elements the predicate holds of,
\* given by their positions
Find(seq, matching) ==
  IF matching = {}
    THEN None
    ELSE Some(seq[CHOOSE i \in matching : \A j \in matching : i <= j])

compare_projects_exact(local, remote) ==
  LET local_names == {local[i].name : i \in 1..Len(local)}
      LocalStatus(local_proj) ==
        LET remote_proj == Find(remote, {j \in 1..Len(remote) : remote[j].name = local_proj.name})
        IN IF remote_proj # None THEN Synced(local_proj, remote_proj.v)
                                 ELSE LocalOnly(local_proj)
      Unmatched(remote_proj) == remote_proj.name \notin local_names
      rest == SelectSeq(remote, Unmatched)
  IN [i \in 1..Len(local) |-> LocalStatus(local[i])]
       \o [i \in 1..Len(rest) |-> RemoteOnly(rest[i])]

\* compare_projects(local, remote)
compare_projects(local, remote) ==
  LET local_names == {to_lowercase(local[i].name) : i \in 1..Len(local)}
      LocalStatus(local_proj) ==
        LET name_lower == to_lowercase(local_proj.name)
            remote_proj == Find(remote, {j \in 1..Len(remote) :
                                            to_lowercase(remote[j].name) = name_lower})
        IN IF remote_proj # None THEN Synced(local_proj, remote_proj.v)
                                 ELSE LocalOnly(local_proj)
      Unmatched(remote_proj) == to_lowercase(remote_proj.name) \notin local_names
      rest == SelectSeq(remote, Unmatched)
  IN [i \in 1..Len(local) |-> LocalStatus(local[i])]
       \o [i \in 1..Len(rest) |-> RemoteOnly(rest[i])]

\* lists of names of up to MaxProjects folders or projects
NameLists == UNION {[1..n -> ProjectNames] : n \in 0..MaxProjects}
\* the order of lower-cased names
Rank(lower) == CASE lower = "app" -> 1 [] lower = "lib" -> 2
\* scan_local_projects: one entry per folder, sorted by lower-cased name
Scanned(ns) ==
  \A i, j \in 1..Len(ns) :
    i < j => ns[i] # ns[j] /\ Rank(to_lowercase(ns[i])) <= Rank(to_lowercase(ns[j]))
LocalLists ==
  {[i \in 1..Len(ns) |-> LocalProject(ns[i], i)] : ns \in {l \in NameLists : Scanned(l)}}
\* fetch_linear_projects: the projects as the API returned them
RemoteLists == {[i \in 1..Len(ns) |-> LinearProject(i, ns[i])] : ns \in NameLists}

SyncFrame == UNCHANGED <<cacheVars, cfgVars, procs>>

\* run_status / run_sync gather the two lists
Scan(local, remote) ==
  /\ sync.op = "none"
  /\ sync' = [op |-> "scan", local |-> local, remote |-> remote]
  /\ SyncFrame

\* ... and compare them
CompareProjects ==
  /\ sync.op = "scan"
  /\ sync' = [op |-> "compare_projects", local |-> sync.local, remote |-> sync.remote,
              ret |-> compare_projects(sync.local, sync.remote)]
  /\ SyncFrame

InitSync ==
  /\ cfg = NoFile
  /\ wres = NoCfgCall
  /\ CacheIdle

NextSync ==
  \/ \E local \in LocalLists, remote \in RemoteLists : Scan(local, remote)
  \/ CompareProjects
SpecSync == InitSync /\ [][NextSync]_vars


(***************************************************************************)
(* Properties of the cache store                                           *)
(***************************************************************************)
\* the entry the last cache call found in the file of its type
Found == from_str(cres.pre[cres.type])

\* now < timestamp + ttl_seconds over the integers, at the time of the call
Unexpired(e, t) == t < e.timestamp + e.ttl_seconds

\* C1: for every stored entry (timestamp ts, ttl_seconds t) and every time now,
\* Cache::get returns the entry's data exactly when now < ts + t, and nothing
\* otherwise.
C1_GetReturnsDataIffUnexpired ==
  (cres.op = "get" /\ Found # None) =>
    cres.ret = IF Unexpired(Found.v, cres.at) THEN Some(Found.v.data) ELSE None

\* C1, for the entries whose timestamp + ttl_seconds stays within u64: the
\* boundary cases (elapsed = ttl is invalid, ttl = 0 is never valid) hold there.
C1_WithinU64 ==
  (cres.op = "get" /\ Found # None
     /\ ~AddOverflows(Found.v.timestamp, Found.v.ttl_seconds)) =>
    cres.ret = IF Unexpired(Found.v, cres.at) THEN Some(Found.v.data) ELSE None

\* C2: a get that finds a parseable expired entry returns nothing and leaves no
\* file of that type (get_entry then returns nothing and status reports no age);
\* a get that finds an unexpired entry leaves the cache directory as it was.
C2_LazyEviction ==
  (cres.op = "get" /\ Found # None) =>
    IF Unexpired(Found.v, cres.at)
      THEN files = cres.pre
      ELSE /\ cres.ret = None
           /\ ~Exists(files, cres.type)
           /\ get_entry(files, cres.type) = None
           /\ status(files, cres.type).age_seconds = None
           /\ files = RemoveFile(cres.pre, cres.type)

\* C2, for the entries whose timestamp + ttl_seconds stays within u64
C2_WithinU64 ==
  (cres.op = "get" /\ Found # None
     /\ ~AddOverflows(Found.v.timestamp, Found.v.ttl_seconds)) =>
    IF Unexpired(Found.v, cres.at)
      THEN files = cres.pre
      ELSE /\ cres.ret = None
           /\ ~Exists(files, cres.type)
           /\ get_entry(files, cres.type) = None
           /\ status(files, cres.type).age_seconds = None
           /\ files = RemoveFile(cres.pre, cres.type)

\* C3: with a store TTL t > 0, right after set(type, v) the file of the type
\* holds {timestamp = time of the set, ttl_seconds = t, data = v}, whatever it
\* held before, and a get(type) made at once returns v.
C3_SetGetRoundTrip ==
  (cres.op = "set" /\ cres.ttl > 0 /\ now = cres.at) =>
    /\ files = WriteFile(cres.pre, cres.type,
                         to_string_pretty(CacheEntry(cres.at, cres.ttl, cres.arg.v)))
    /\ GetRet(files, cres.type).ret = Some(cres.arg.v)

\* C3, for the stores whose TTL keeps now + ttl_seconds within u64
C3_WithinU64 ==
  (cres.op = "set" /\ cres.ttl > 0 /\ now = cres.at
     /\ ~AddOverflows(cres.at, cres.ttl)) =>
    /\ files = WriteFile(cres.pre, cres.type,
                         to_string_pretty(CacheEntry(cres.at, cres.ttl, cres.arg.v)))
    /\ GetRet(files, cres.type).ret = Some(cres.arg.v)

(***************************************************************************)
(* Properties of the workspace registry                                    *)
(***************************************************************************)
\* the registry a call finds: what load_config makes of the registry file
Registry(file) == load_config(file).config

\* the registry before and after the last registry call
RegBefore == Registry(wres.pre)
RegAfter == Registry(cfg)

\* a registry file with no legacy api_key field (or no file at all)
Plain(file) == file.kind = "absent" \/ file.api_key = None

\* LINEAR_API_KEY is set to a non-empty string
Overrides(env) == env # None /\ env.v # ""

\* what the registry alone resolves to
Resolved(r) ==
  IF r.current = None THEN "err"
  ELSE IF r.current.v \notin DOMAIN r.workspaces THEN "err"
  ELSE r.workspaces[r.current.v].api_key

\* C4: with LINEAR_API_KEY set and non-empty, get_api_key returns exactly that
\* string whatever the registry file holds and neither loads nor changes the
\* file; unset or empty, it is ignored and the registry is loaded and decides.
C4_EnvOverrideBypassesRegistry ==
  wres.op = "get_api_key" =>
    IF Overrides(wres.env)
      THEN /\ wres.ret = OkWith(wres.env.v)
           /\ ~wres.loaded
           /\ cfg = wres.pre
      ELSE /\ wres.loaded
           /\ cfg = load_config(wres.pre).file
           /\ \/ wres.ret.tag = "err" /\ Resolved(RegBefore) = "err"
              \/ wres.ret = OkWith(Resolved(RegBefore))

\* C4 witness: the override was used over a legacy-format file, which a load
\* would have migrated
C4_Witness ==
  /\ wres.op = "get_api_key"
  /\ Overrides(wres.env)
  /\ wres.ret = OkWith(wres.env.v)
  /\ wres.pre.kind = "toml"
  /\ wres.pre.api_key # None
  /\ "default" \notin DOMAIN wres.pre.workspaces

\* C5: with no override, get_api_key returns the api_key of the workspace that
\* current names and no other; it fails when current is unset and when current
\* names no registered workspace.  After workspace_add(name, key) on an empty
\* registry it returns key.
C5_ResolvesCurrentWorkspace ==
  /\ (wres.op = "get_api_key" /\ ~Overrides(wres.env)) =>
       IF RegBefore.current = None THEN wres.ret.tag = "err"
       ELSE IF RegBefore.current.v \notin DOMAIN RegBefore.workspaces
         THEN wres.ret.tag = "err"
       ELSE wres.ret = OkWith(RegBefore.workspaces[RegBefore.current.v].api_key)
  /\ (wres.op = "workspace_add" /\ wres.ret = Ok /\ RegBefore = DefaultConfig) =>
       get_api_key(None, cfg).ret = OkWith(wres.key)

\* C5 witness: the key of current was returned from a registry that also holds
\* a workspace with another key
C5_Witness ==
  /\ wres.op = "get_api_key"
  /\ wres.env = None
  /\ wres.ret.tag = "ok"
  /\ \E n \in DOMAIN RegBefore.workspaces :
       RegBefore.workspaces[n].api_key # wres.ret.v

\* C6: from an empty registry, after any calls, current is absent or names a
\* registered workspace, and it is absent only when no workspace is registered.
C6_CurrentNamesWorkspace ==
  LET r == Registry(cfg) IN
  /\ r.current # None => r.current.v \in DOMAIN r.workspaces
  /\ r.current = None => DOMAIN r.workspaces = {}

\* C6 witness: the current workspace was removed while another remained
C6_Witness ==
  /\ wres.op = "workspace_remove"
  /\ wres.ret = Ok
  /\ RegBefore.current = Some(wres.name)
  /\ DOMAIN RegAfter.workspaces # {}

\* C7: workspace_add fails on a registered name and then leaves every workspace,
\* the set of workspaces and current as they were; on any other name it succeeds,
\* stores key under name and leaves the other workspaces as they were.
C7_AddNeverOverwrites ==
  wres.op = "workspace_add" =>
    IF wres.name \in DOMAIN RegBefore.workspaces
      THEN /\ wres.ret.tag = "err"
           /\ RegAfter = RegBefore
           /\ Plain(wres.pre) => cfg = wres.pre
      ELSE /\ wres.ret = Ok
           /\ DOMAIN RegAfter.workspaces = DOMAIN RegBefore.workspaces \cup {wres.name}
           /\ RegAfter.workspaces[wres.name].api_key = wres.key
           /\ \A n \in DOMAIN RegBefore.workspaces :
                RegAfter.workspaces[n] = RegBefore.workspaces[n]

\* C7 witness: an add was refused for a name registered with a different key
C7_Witness ==
  /\ wres.op = "workspace_add"
  /\ wres.ret.tag = "err"
  /\ wres.name \in DOMAIN RegBefore.workspaces
  /\ RegBefore.workspaces[wres.name].api_key # wres.key

C9_SwitchValidatesName ==
  wres.op = "workspace_switch" =>
    IF wres.name \notin DOMAIN RegBefore.workspaces
      THEN /\ wres.ret.tag = "err"
           /\ RegAfter = RegBefore
           /\ Plain(wres.pre) => cfg = wres.pre
      ELSE /\ wres.ret = Ok
           /\ RegAfter.current = Some(wres.name)
           /\ RegAfter.workspaces = RegBefore.workspaces

\* C9 witness: a switch to an unregistered name was refused with a workspace
\* current
C9_Witness ==
  /\ wres.op = "workspace_switch"
  /\ wres.ret.tag = "err"
  /\ RegBefore.current # None
  /\ RegBefore.current.v \in DOMAIN RegBefore.workspaces
  /\ RegAfter.current = RegBefore.current

\* C10: workspace_remove fails on an unregistered name; otherwise it removes
\* that workspace alone, and if it was current the new current is one of the
\* remaining workspaces, or absent when none remains; if it was not current,
\* current is what it was.
C10_RemoveReassignsCurrent ==
  wres.op = "workspace_remove" =>
    IF wres.name \notin DOMAIN RegBefore.workspaces
      THEN wres.ret.tag = "err"
      ELSE /\ wres.ret = Ok
           /\ DOMAIN RegAfter.workspaces = DOMAIN RegBefore.workspaces \ {wres.name}
           /\ \A n \in DOMAIN RegAfter.workspaces :
                RegAfter.workspaces[n] = RegBefore.workspaces[n]
           /\ IF RegBefore.current = Some(wres.name)
                THEN IF DOMAIN RegAfter.workspaces = {}
                       THEN RegAfter.current = None
                       ELSE /\ RegAfter.current # None
                            /\ RegAfter.current.v \in DOMAIN RegAfter.workspaces
                ELSE RegAfter.current = RegBefore.current

\* C10 witness: with a and b registered and a current, a was removed and b is
\* current
C10_Witness ==
  /\ wres.op = "workspace_remove"
  /\ wres.name = "a"
  /\ wres.ret = Ok
  /\ DOMAIN RegBefore.workspaces = {"a", "b"}
  /\ RegBefore.current = Some("a")
  /\ RegAfter.current = Some("b")

\* a registry file that load_config migrates: it holds the legacy api_key and no
\* workspace named "default"
Migrates(file) ==
  /\ file.kind = "toml"
  /\ file.api_key # None
  /\ "default" \notin DOMAIN file.workspaces

\* the migrated form of such a file, and any other file as it is
MigratedFile(file) ==
  IF Migrates(file)
    THEN [kind |-> "toml",
          current |-> IF file.current = None THEN Some("default") ELSE file.current,
          workspaces |-> [n \in DOMAIN file.workspaces \cup {"default"} |->
                            IF n = "default" THEN [api_key |-> file.api_key.v]
                            ELSE file.workspaces[n]],
          api_key |-> None]
    ELSE file

\* the last registry call ended in a validation error
ValidationError ==
  /\ wres.op \in {"workspace_add", "workspace_switch", "workspace_remove",
                  "get_api_key"}
  /\ wres.ret.tag = "err"

\* C11 as claimed: a workspace operation that ends in a validation error leaves
\* the registry file exactly as it was, whatever the file held, a legacy-format
\* file included.
C11_ErrorLeavesFileUntouched == ValidationError => cfg = wres.pre

\* C11 as amended: a workspace operation that ends in a validation error writes
\* nothing of its own; the file is as it was, except that a file with the legacy
\* api_key and no workspace "default" has been rewritten in its migrated form by
\* the load.
C11_ErrorLeavesFileAsLoaded ==
  ValidationError =>
    /\ cfg = MigratedFile(wres.pre)
    /\ ~Migrates(wres.pre) => cfg = wres.pre

\* C11 witness: a switch to an unregistered name was refused over a legacy-format
\* file, which the load has migrated
C11_Witness ==
  /\ wres.op = "workspace_switch"
  /\ wres.ret.tag = "err"
  /\ Migrates(wres.pre)
  /\ cfg # wres.pre
  /\ cfg.api_key = None

\* the last registry call was one that only loads the registry
ReadOnlyCall == wres.op \in {"workspace_list", "workspace_current"}

\* C17: loading a file that holds the legacy api_key yields a registry whose
\* workspace "default" holds that key, with current = "default" if none was set
\* and unchanged otherwise; the migrated form is persisted without the legacy
\* field and a later load finds no legacy field and migrates nothing; this for
\* every such file, one that already has a workspace "default" included.
C17_LegacyMigration ==
  (ReadOnlyCall /\ wres.pre.kind = "toml" /\ wres.pre.api_key # None) =>
    LET r == load_config(wres.pre).config IN
    /\ "default" \in DOMAIN r.workspaces
    /\ r.workspaces["default"].api_key = wres.pre.api_key.v
    /\ r.current = IF wres.pre.current = None THEN Some("default")
                   ELSE wres.pre.current
    /\ cfg = save_config(r)
    /\ cfg.api_key = None
    /\ ~load_config(cfg).saved

\* C17, for the legacy files with no workspace "default"
C17_WithoutDefault ==
  (ReadOnlyCall /\ Migrates(wres.pre)) =>
    LET r == load_config(wres.pre).config IN
    /\ "default" \in DOMAIN r.workspaces
    /\ r.workspaces["default"].api_key = wres.pre.api_key.v
    /\ r.current = IF wres.pre.current = None THEN Some("default")
                   ELSE wres.pre.current
    /\ cfg = save_config(r)
    /\ cfg.api_key = None
    /\ ~load_config(cfg).saved

\* C18 as claimed: workspace_list and workspace_current leave the registry file
\* exactly as it was, whatever it held.
C18_ReadsLeaveFileUntouched == ReadOnlyCall => cfg = wres.pre

\* C18 as amended: workspace_list and workspace_current write nothing of their
\* own; the file is as it was, except that a file with the legacy api_key and no
\* workspace "default" has been rewritten in its migrated form by the load.
C18_ReadsLeaveFileAsLoaded ==
  ReadOnlyCall =>
    /\ cfg = MigratedFile(wres.pre)
    /\ ~Migrates(wres.pre) => cfg = wres.pre

\* C18 witness: workspace_list ran over a file with the legacy api_key next to a
\* workspace "default", and the file, legacy field included, is as it was
C18_Witness ==
  /\ wres.op = "workspace_list"
  /\ wres.pre.kind = "toml"
  /\ wres.pre.api_key # None
  /\ "default" \in DOMAIN wres.pre.workspaces
  /\ cfg = wres.pre

\* the last cache call was set_keyed and it returned Ok
SetKeyedDone == cres.op = "set_keyed" /\ cres.ret = Ok

\* what the type of the last call held under a key before the call, as a member
\* of a stored map, expired or not
HeldBefore(key) == Found # None /\ GetMember(Found.v.data, key) # None

\* C12: after set_keyed(type, k, v) succeeds, an immediate get_keyed(type, k)
\* returns v and get_keyed(type, k2) returns nothing for a key k2 never written,
\* whatever the type held before: nothing, an expired entry, a map, or a value
\* that is not a map.
C12_SetKeyedGetKeyed ==
  (SetKeyedDone /\ now = cres.at) =>
    /\ get_keyed(files, cres.type, cres.arg.v.key).ret = Some(cres.arg.v.value)
    /\ \A k2 \in SubKeys \ {cres.arg.v.key} :
         ~HeldBefore(k2) => get_keyed(files, cres.type, k2).ret = None

\* the value get returned to set_keyed: the prior content if valid
PriorValid == Found # None /\ Unexpired(Found.v, cres.at)

\* C12 where the store's TTL is positive, the sums stay within u64 and the type
\* held no unexpired value that is not a map
C12_OverMaps ==
  (/\ SetKeyedDone /\ now = cres.at
   /\ cres.ttl > 0 /\ cres.at + cres.ttl <= U64_MAX
   /\ ~(PriorValid /\ Found.v.data.kind # "object")) =>
    /\ get_keyed(files, cres.type, cres.arg.v.key).ret = Some(cres.arg.v.value)
    /\ \A k2 \in SubKeys \ {cres.arg.v.key} :
         ~HeldBefore(k2) => get_keyed(files, cres.type, k2).ret = None

\* the keys other than the one written that set_keyed found stored and unexpired
StoredBefore == {k \in SubKeys \ {cres.arg.v.key} : PriorValid /\ HeldBefore(k)}

\* C13: set_keyed at time T rewrites the whole entry of the type with timestamp
\* T: every other key stored under the type and unexpired at T is returned by
\* get_keyed at every time before T + ttl.
C13_SetKeyedExtendsOtherKeys ==
  (SetKeyedDone /\ cres.at <= now /\ now < cres.at + cres.ttl) =>
    /\ files[cres.type].kind = "json"
    /\ files[cres.type].timestamp = cres.at
    /\ \A k \in StoredBefore :
         get_keyed(files, cres.type, k).ret = GetMember(Found.v.data, k)

\* C13 where T + ttl stays within u64
C13_WithinU64 ==
  (/\ SetKeyedDone /\ cres.at <= now /\ now < cres.at + cres.ttl
   /\ cres.at + cres.ttl <= U64_MAX) =>
    /\ files[cres.type].kind = "json"
    /\ files[cres.type].timestamp = cres.at
    /\ \A k \in StoredBefore :
         get_keyed(files, cres.type, k).ret = GetMember(Found.v.data, k)

\* the last cache call was get_keyed over a file that holds an entry
GetKeyedOverEntry == cres.op = "get_keyed" /\ Found # None

\* C14: get_keyed over an expired entry (now >= timestamp + ttl) returns nothing
\* for every key and removes the file of the type; over an unexpired entry that
\* lacks the key it returns nothing and leaves every file as it was.
C14_ExpiryIsPerType ==
  GetKeyedOverEntry =>
    IF ~Unexpired(Found.v, cres.at)
      THEN cres.ret = None /\ files = RemoveFile(cres.pre, cres.type)
      ELSE GetMember(Found.v.data, cres.arg.v.key) = None =>
             cres.ret = None /\ files = cres.pre

\* C14 where timestamp + ttl stays within u64
C14_WithinU64 ==
  (GetKeyedOverEntry /\ ~AddOverflows(Found.v.timestamp, Found.v.ttl_seconds)) =>
    IF ~Unexpired(Found.v, cres.at)
      THEN cres.ret = None /\ files = RemoveFile(cres.pre, cres.type)
      ELSE GetMember(Found.v.data, cres.arg.v.key) = None =>
             cres.ret = None /\ files = cres.pre

\* the entry a file holds, if it holds one
EntryOf(content) == from_str(content)

\* the types whose file held an entry that had expired when the last call ran
ExpiredBefore ==
  {ct \in CacheTypes :
     EntryOf(cres.pre[ct]) # None /\ ~Unexpired(EntryOf(cres.pre[ct]).v, cres.at)}

\* the types whose file was missing or held no entry when the last call ran
MissingBefore == {ct \in CacheTypes : EntryOf(cres.pre[ct]) = None}

\* some file held an entry whose timestamp + ttl_seconds leaves u64
OverflowBefore ==
  \E ct \in CacheTypes :
    /\ EntryOf(cres.pre[ct]) # None
    /\ AddOverflows(EntryOf(cres.pre[ct]).v.timestamp,
                    EntryOf(cres.pre[ct]).v.ttl_seconds)

\* what status reports for an expired entry: not valid, its age, and a size and
\* an item count
ReportsExpired(st, ct) ==
  /\ st.valid = FALSE
  /\ st.age_seconds = Some(cres.at - cres.pre[ct].timestamp)
  /\ st.size_bytes # None
  /\ st.item_count # None

\* C15: status() and get_entry(type) leave every cache file as it is; status
\* reports an expired entry as not valid with its age, size and item count, and
\* get_entry returns an expired entry with the timestamp, TTL and data it was
\* written with.
C15_StatusAndGetEntryReadOnly ==
  /\ cres.op \in {"status", "get_entry"} => files = cres.pre
  /\ (cres.op = "status" /\ ExpiredBefore # {}) =>
       /\ cres.ret.tag = "vec"
       /\ \A ct \in ExpiredBefore : ReportsExpired(cres.ret.v[ct], ct)
  /\ (cres.op = "get_entry" /\ cres.type \in ExpiredBefore) =>
       cres.ret = Some([timestamp |-> cres.pre[cres.type].timestamp,
                        ttl_seconds |-> cres.pre[cres.type].ttl_seconds,
                        data |-> cres.pre[cres.type].data])

\* C15 over directories in which no entry's timestamp + ttl_seconds leaves u64
C15_WithinU64 ==
  ~OverflowBefore =>
    /\ cres.op \in {"status", "get_entry"} => files = cres.pre
    /\ (cres.op = "status" /\ ExpiredBefore # {}) =>
         /\ cres.ret.tag = "vec"
         /\ \A ct \in ExpiredBefore : ReportsExpired(cres.ret.v[ct], ct)
    /\ (cres.op = "get_entry" /\ cres.type \in ExpiredBefore) =>
         cres.ret = Some([timestamp |-> cres.pre[cres.type].timestamp,
                          ttl_seconds |-> cres.pre[cres.type].ttl_seconds,
                          data |-> cres.pre[cres.type].data])

\* the calls that read the cache
CacheReads == {"get", "get_keyed", "is_valid", "get_entry", "status"}

\* C16: over a file that is missing or does not deserialize, get and get_keyed
\* return nothing and is_valid returns false, with no error and no panic, and
\* status reports the type as not valid with no age, size or item count; no read
\* returns an error.
C16_ReadsNeverFail ==
  /\ (cres.op \in {"get", "get_keyed"} /\ cres.type \in MissingBefore) =>
       cres.ret = None
  /\ (cres.op = "is_valid" /\ cres.type \in MissingBefore) =>
       cres.ret = Bool(FALSE)
  /\ (cres.op = "status" /\ MissingBefore # {}) =>
       /\ cres.ret.tag = "vec"
       /\ \A ct \in MissingBefore :
            cres.ret.v[ct] = CacheStatus(FALSE, None, None, None)
  /\ cres.op \in CacheReads => cres.ret.tag # "err"

\* C16 over directories in which no entry's timestamp + ttl_seconds leaves u64
C16_WithinU64 ==
  ~OverflowBefore =>
    /\ (cres.op \in {"get", "get_keyed"} /\ cres.type \in MissingBefore) =>
         cres.ret = None
    /\ (cres.op = "is_valid" /\ cres.type \in MissingBefore) =>
         cres.ret = Bool(FALSE)
    /\ (cres.op = "status" /\ MissingBefore # {}) =>
         /\ cres.ret.tag = "vec"
         /\ \A ct \in MissingBefore :
              cres.ret.v[ct] = CacheStatus(FALSE, None, None, None)
    /\ cres.op \in CacheReads => cres.ret.tag # "err"

\* C19: clear_type(type) returns Ok whether or not the file of the type exists;
\* after it the file is gone and get(type) returns nothing, and the files of the
\* other three types are as they were.
C19_ClearTypeIdempotent ==
  cres.op = "clear_type" =>
    /\ cres.ret = Ok
    /\ files[cres.type] = NoFile
    /\ GetRet(files, cres.type).ret = None
    /\ \A ct \in CacheTypes \ {cres.type} : files[ct] = cres.pre[ct]

\* C19, two calls in a row: a clear_type that follows a clear_type of the same
\* type returns Ok and changes no file
C19_TwiceInARow ==
  [][(/\ cres.op = "clear_type" /\ cres'.op = "clear_type"
      /\ cres'.type = cres.type /\ ops' = ops + 1) =>
       (cres'.ret = Ok /\ files' = files)]_vars

\* C19 witness: clear_type, the second call made, found the file of its type
\* already gone and returned Ok, with the files of the other three types still
\* there
C19_Witness ==
  /\ cres.op = "clear_type"
  /\ ops = 2
  /\ cres.pre[cres.type] = NoFile
  /\ cres.ret = Ok
  /\ \A ct \in CacheTypes \ {cres.type} : files[ct] # NoFile

\* C20: after clear_all() returns Ok no cache file exists for any of the four
\* types, get returns nothing for each, and status reports each as not valid
\* with no age, size or item count, whatever the directory held before.
C20_ClearAllClearsEveryType ==
  (cres.op = "clear_all" /\ cres.ret = Ok) =>
    /\ \A ct \in CacheTypes :
         /\ files[ct] = NoFile
         /\ GetRet(files, ct).ret = None
    /\ status_all(files) =
         [tag |-> "vec",
          v |-> [ct \in CacheTypes |-> CacheStatus(FALSE, None, None, None)]]

\* C20 witness: clear_all has run over a directory with an unexpired entry, an
\* expired one, a file that is no entry and a missing file
C20_Witness ==
  /\ cres.op = "clear_all"
  /\ cres.ret = Ok
  /\ cres.at >= 1
  /\ \E a, b, c, d \in CacheTypes :
       /\ cres.pre[a] = Lasting
       /\ cres.pre[b] = Expiring
       /\ cres.pre[c] = Garbage
       /\ cres.pre[d] = NoFile
  /\ \A ct \in CacheTypes : files[ct] = NoFile

\* C21: get decides by the ttl_seconds stored in the entry, whatever the TTL of
\* the store that reads it: it returns the data exactly while the entry's age is
\* below the entry's own TTL; set writes the TTL of the store that writes; a
\* store built with Cache::new has TTL 3600.
C21_EntryTtlDecides ==
  /\ (cres.op = "get" /\ Found # None) =>
       cres.ret = IF cres.at - Found.v.timestamp < Found.v.ttl_seconds
                    THEN Some(Found.v.data) ELSE None
  /\ cres.op = "set" =>
       /\ files[cres.type].kind = "json"
       /\ files[cres.type].ttl_seconds = cres.ttl
  /\ cres.op = "new" => ttl_seconds = 3600

\* C21 for entries whose timestamp + ttl_seconds stays within u64
C21_WithinU64 ==
  /\ (/\ cres.op = "get" /\ Found # None
      /\ ~AddOverflows(Found.v.timestamp, Found.v.ttl_seconds)) =>
       cres.ret = IF cres.at - Found.v.timestamp < Found.v.ttl_seconds
                    THEN Some(Found.v.data) ELSE None
  /\ cres.op = "set" =>
       /\ files[cres.type].kind = "json"
       /\ files[cres.type].ttl_seconds = cres.ttl
  /\ cres.op = "new" => ttl_seconds = 3600

\* max(0, n)
Max0(n) == IF n > 0 THEN n ELSE 0

\* C22: for every timestamp and ttl_seconds of a u64 and every time now,
\* is_valid, age_seconds and remaining_ttl return without panic and without
\* wrap-around: is_valid = (now < timestamp + ttl_seconds), age_seconds =
\* max(0, now - timestamp), remaining_ttl = max(0, timestamp + ttl_seconds - now),
\* the sum taken over the integers.
C22_EntryTimesTotal ==
  (cres.op = "entry_times" /\ Found # None) =>
    /\ cres.ret.is_valid = Bool(cres.at < Found.v.timestamp + Found.v.ttl_seconds)
    /\ cres.ret.age_seconds = U64(Max0(cres.at - Found.v.timestamp))
    /\ cres.ret.remaining_ttl =
         U64(Max0(Found.v.timestamp + Found.v.ttl_seconds - cres.at))

\* C22 for entries whose timestamp + ttl_seconds stays within u64
C22_WithinU64 ==
  (/\ cres.op = "entry_times" /\ Found # None
   /\ ~AddOverflows(Found.v.timestamp, Found.v.ttl_seconds)) =>
    /\ cres.ret.is_valid = Bool(cres.at < Found.v.timestamp + Found.v.ttl_seconds)
    /\ cres.ret.age_seconds = U64(Max0(cres.at - Found.v.timestamp))
    /\ cres.ret.remaining_ttl =
         U64(Max0(Found.v.timestamp + Found.v.ttl_seconds - cres.at))

\* C22, the part about age_seconds alone, for every entry
C22_AgeSaturates ==
  (cres.op = "entry_times" /\ Found # None) =>
    cres.ret.age_seconds = U64(Max0(cres.at - Found.v.timestamp))

\* C24: is_valid(type) returns true exactly when get(type) at the same instant
\* returns a value, and leaves the directory as get does: it removes the file of
\* an expired entry and changes nothing over an unexpired entry, a missing file
\* or a file that is no entry.
C24_IsValidIsGet ==
  (cres.op = "is_valid" /\ now = cres.at) =>
    /\ cres.ret = IF GetRet(cres.pre, cres.type).ret = Panic THEN Panic
                  ELSE Bool(GetRet(cres.pre, cres.type).ret # None)
    /\ files = GetRet(cres.pre, cres.type).fs
    /\ files = IF Found # None /\ ~Unexpired(Found.v, cres.at)
                 THEN RemoveFile(cres.pre, cres.type)
                 ELSE cres.pre

\* C24 over files whose entry's timestamp + ttl_seconds stays within u64
C24_WithinU64 ==
  (/\ cres.op = "is_valid" /\ now = cres.at
   /\ Found # None => ~AddOverflows(Found.v.timestamp, Found.v.ttl_seconds)) =>
    /\ cres.ret = IF GetRet(cres.pre, cres.type).ret = Panic THEN Panic
                  ELSE Bool(GetRet(cres.pre, cres.type).ret # None)
    /\ files = GetRet(cres.pre, cres.type).fs
    /\ files = IF Found # None /\ ~Unexpired(Found.v, cres.at)
                 THEN RemoveFile(cres.pre, cres.type)
                 ELSE cres.pre

\* the map stored for the type of the last call, after the call
StoredMap == files[cres.type].data.m

\* C25: over an unexpired entry that holds a map, set_keyed(type, k, v) leaves
\* the value of every other key as it was and sets k to v; over a missing file,
\* an expired entry or a file that is no entry, the data stored afterwards is
\* exactly the map {k: v}.
C25_SetKeyedFrame ==
  cres.op = "set_keyed" =>
    IF PriorValid
      THEN Found.v.data.kind = "object" =>
             /\ files[cres.type].kind = "json"
             /\ files[cres.type].data.kind = "object"
             /\ StoredMap[cres.arg.v.key] = cres.arg.v.value
             /\ DOMAIN StoredMap = DOMAIN Found.v.data.m \cup {cres.arg.v.key}
             /\ \A k2 \in DOMAIN Found.v.data.m \ {cres.arg.v.key} :
                  StoredMap[k2] = Found.v.data.m[k2]
      ELSE /\ files[cres.type].kind = "json"
           /\ files[cres.type].data = JObject([k \in {cres.arg.v.key} |-> cres.arg.v.value])

\* C25 where no timestamp + ttl_seconds involved leaves u64
C25_WithinU64 ==
  (/\ cres.op = "set_keyed"
   /\ Found # None => ~AddOverflows(Found.v.timestamp, Found.v.ttl_seconds)) =>
    IF PriorValid
      THEN Found.v.data.kind = "object" =>
             /\ files[cres.type].kind = "json"
             /\ files[cres.type].data.kind = "object"
             /\ StoredMap[cres.arg.v.key] = cres.arg.v.value
             /\ DOMAIN StoredMap = DOMAIN Found.v.data.m \cup {cres.arg.v.key}
             /\ \A k2 \in DOMAIN Found.v.data.m \ {cres.arg.v.key} :
                  StoredMap[k2] = Found.v.data.m[k2]
      ELSE /\ files[cres.type].kind = "json"
           /\ files[cres.type].data = JObject([k \in {cres.arg.v.key} |-> cres.arg.v.value])

\* the display the claim describes, counted in characters: the first 8, "...",
\* and the last 4 of a key longer than 12, the whole key otherwise
MaskedByChars(key) ==
  LET cs == Chars(key) IN
  IF Len(cs) > 12
    THEN Text(Str(SubSeq(cs, 1, 8)) \o "..." \o Str(SubSeq(cs, Len(cs) - 3, Len(cs))))
    ELSE Text(key)

\* every char of the key is one byte long
IsAscii(key) == StrLen(key) = Len(Chars(key))

\* the last registry call displays the key of the current workspace, which exists
DisplaysCurrent ==
  /\ wres.op \in {"workspace_current", "show_config"}
  /\ RegBefore.current # None
  /\ RegBefore.current.v \in DOMAIN RegBefore.workspaces

\* C23: workspace_list displays every workspace's key, and workspace_current and
\* show_config the current workspace's key, as its first 8 characters, "..." and
\* its last 4 characters when it is longer than 12 characters, and in full when
\* it has 12 characters or fewer.
C23_CredentialMasking ==
  /\ wres.op = "workspace_list" =>
       /\ wres.ret.tag = "ok"
       /\ wres.ret.out =
            {[marker |-> IF RegBefore.current = Some(n) THEN "*" ELSE " ",
              name |-> n,
              key |-> MaskedByChars(RegBefore.workspaces[n].api_key)] :
               n \in DOMAIN RegBefore.workspaces}
  /\ DisplaysCurrent =>
       /\ wres.ret.tag = "ok"
       /\ wres.ret.out.key =
            Some(MaskedByChars(RegBefore.workspaces[RegBefore.current.v].api_key))

\* C23 for keys of one-byte characters
C23_Ascii ==
  /\ (/\ wres.op = "workspace_list"
      /\ \A n \in DOMAIN RegBefore.workspaces :
           IsAscii(RegBefore.workspaces[n].api_key)) =>
       /\ wres.ret.tag = "ok"
       /\ wres.ret.out =
            {[marker |-> IF RegBefore.current = Some(n) THEN "*" ELSE " ",
              name |-> n,
              key |-> MaskedByChars(RegBefore.workspaces[n].api_key)] :
               n \in DOMAIN RegBefore.workspaces}
  /\ (/\ DisplaysCurrent
      /\ IsAscii(RegBefore.workspaces[RegBefore.current.v].api_key)) =>
       /\ wres.ret.tag = "ok"
       /\ wres.ret.out.key =
            Some(MaskedByChars(RegBefore.workspaces[RegBefore.current.v].api_key))

(***************************************************************************)
(* Properties of the project comparison                                    *)
(***************************************************************************)
\* names that differ in letter case only
CaseClasses == {{"app", "App"}, {"lib", "LIB"}}
SameIgnoringCase(a, b) == \E class \in CaseClasses : a \in class /\ b \in class

Compared == sync.op = "compare_projects"

\* C30: compare_projects yields one status per local project, in local order:
\* Synced with a remote project of the same name ignoring letter case if there
\* is one, LocalOnly otherwise; then one RemoteOnly per remote project whose
\* name equals, ignoring case, no local project's name, in remote order; and no
\* remote project is both part of a Synced pair and RemoteOnly.
C30_CompareProjects ==
  Compared =>
    LET local == sync.local
        remote == sync.remote
        ret == sync.ret
        n == Len(local)
        Matches(l) == {j \in 1..Len(remote) : SameIgnoringCase(remote[j].name, l.name)}
        Alone(r) == \A i \in 1..n : ~SameIgnoringCase(r.name, local[i].name)
        alone == SelectSeq(remote, Alone)
    IN /\ Len(ret) = n + Len(alone)
       /\ \A i \in 1..n :
            /\ ret[i].local = local[i]
            /\ IF Matches(local[i]) # {}
                 THEN /\ ret[i].status = "Synced"
                      /\ \E j \in Matches(local[i]) : ret[i].remote = remote[j]
                 ELSE ret[i].status = "LocalOnly"
       /\ \A k \in 1..Len(alone) : ret[n + k] = RemoteOnly(alone[k])
       /\ \A i \in 1..n, k \in (n + 1)..Len(ret) :
            ret[i].status = "Synced" => ret[i].remote # ret[k].remote

\* a folder matched with a project whose name differs in case, before a project
\* that no folder matches
C30_Witness ==
  /\ Compared
  /\ \E i \in 1..Len(sync.ret) :
       /\ sync.ret[i].status = "Synced"
       /\ sync.ret[i].local.name # sync.ret[i].remote.name
  /\ \E i \in 1..Len(sync.ret) : sync.ret[i].status = "RemoteOnly"

(***************************************************************************)
(* Properties of two processes on one cache file                           *)
(***************************************************************************)
AllDone == \A p \in Procs : procs[p].pc = "done"

\* the process began its call over an entry that had expired by then
BeganOnExpired(p) ==
  LET e == from_str(procs[p].pre.v)
  IN e # None /\ ~Unexpired(e.v, procs[p].at)

\* both processes ran get, each begun over the expired entry
TwoGetsOnExpired ==
  /\ AllDone
  /\ \A p \in Procs : procs[p].op = "get" /\ BeganOnExpired(p)

\* C26: two processes that run get(type) at once on the same expired entry,
\* with no writer, both return nothing, neither reports an error (a delete that
\* fails is ignored), and the file is absent once both have finished, whatever
\* the order of their existence checks, reads and deletes.
C26_ConcurrentEviction ==
  TwoGetsOnExpired =>
    /\ \A p \in Procs : procs[p].ret = None
    /\ ~Exists(files, RaceType)

\* both have read the entry, and the delete of one found the file already gone
C26_Witness ==
  /\ TwoGetsOnExpired
  /\ \A p \in Procs : procs[p].rm # None
  /\ \E p \in Procs : procs[p].rm.v.file = NoFile

\* one process ran the call `a` and the other the call `b`
Ran(p, q, a, b) == p # q /\ procs[p].op = a /\ procs[q].op = b

\* the file holds exactly the text the process wrote
HoldsWriteOf(p) == files[RaceType] = procs[p].content.v

\* the remove_file of the process unlinked an entry that had not expired
RemovedUnexpired(p) ==
  /\ procs[p].rm # None
  /\ LET e == from_str(procs[p].rm.v.file)
     IN e # None /\ Unexpired(e.v, procs[p].rm.v.at)

\* C28: when get(type) in one process runs at once with set(type, v) in
\* another, the lazy eviction of get never removes an unexpired entry: once both
\* have finished, the file exists and holds the valid entry set wrote.
C28_EvictionSparesFreshEntry ==
  \A p, q \in Procs :
    Ran(p, q, "get", "set") =>
      /\ ~RemovedUnexpired(p)
      /\ AllDone => /\ HoldsWriteOf(q)
                    /\ Unexpired(from_str(files[RaceType]).v, now)

\* C28, the interleavings in which get does not go on to remove_file after set
\* has opened the file: the entry set wrote is there when both have finished
C28_WithoutLateRemove ==
  \A p, q \in Procs :
    (/\ Ran(p, q, "get", "set")
     /\ AllDone
     /\ procs[p].rm # None => procs[p].rm.v.file \notin {EmptyFile, procs[q].content.v}
     /\ ~procs[q].orphan)
      => /\ HoldsWriteOf(q)
         /\ Unexpired(from_str(files[RaceType]).v, now)

\* both processes wrote the cache type, with set or set_keyed
TwoWriters ==
  /\ AllDone
  /\ \A p \in Procs : procs[p].op \in {"set", "set_keyed"}

\* C27: last writer wins: when two processes run set or set_keyed on the same
\* cache type at once, the file holds, after both have finished, exactly the text
\* written by the process whose write came last, never a mix of the two, and
\* neither call fails.
C27_LastWriterWins ==
  TwoWriters =>
    /\ \A p \in Procs : procs[p].ret = Ok
    /\ \E p \in Procs : procs[p].last /\ HoldsWriteOf(p)

\* C27, the interleavings in which no write went to an unlinked file and none
\* was shorter than a text written under it: the file holds the text of the
\* last writer
C27_WhenNotOverlapping ==
  (/\ TwoWriters
   /\ \A p \in Procs : ~procs[p].orphan
   /\ files[RaceType].kind # "torn")
    => /\ \A p \in Procs : procs[p].ret = Ok
       /\ \E p \in Procs : procs[p].last /\ HoldsWriteOf(p)

(***************************************************************************)
(* Properties of two processes on the registry file                        *)
(***************************************************************************)
\* the Config names no current workspace, or one that it holds
CurrentIsThere(c) == c.current = None \/ c.current.v \in DOMAIN c.workspaces

\* C29: when two processes each run one workspace mutation (workspace_add,
\* workspace_switch, workspace_remove or set_api_key) at once, on a registry
\* whose current names a workspace that is there, every registry the file ever
\* holds has current absent or naming a workspace of that same registry.
C29_CurrentStaysConsistent ==
  \A reading \in Readings(cfg) :
    reading # None => CurrentIsThere(toml_from_str(reading.v))

\* one process removed a workspace and the other switched to it, each on the
\* registry as it was at the start, and both have written
C29_Witness ==
  /\ AllDone
  /\ \E p, q \in Procs, name \in Names :
       /\ Ran(p, q, "workspace_remove", "workspace_switch")
       /\ procs[p].arg = Some(name) /\ procs[q].arg = Some(name)
       /\ procs[p].ret = Ok /\ procs[q].ret = Ok
       /\ procs[p].snap = procs[p].pre /\ procs[q].snap = procs[q].pre
       /\ procs[p].pre = procs[q].pre

====
